---- MODULE Spec2Model ----
(***************************************************************************)
(* Model of the mirako command-line client: the asynchronous task poll     *)
(* loops of the generation commands (image, avatar, talking-avatar video,  *)
(* motion video, avatar build, voice clone) and the result materializer.   *)
(*                                                                         *)
(* Strings that the code inspects character by character (paths, payloads) *)
(* are sequences of one-character strings; strings the code only copies    *)
(* (status words, error texts) are TLA+ strings.                           *)
(***************************************************************************)
EXTENDS Integers, Sequences, FiniteSets, TLC

VARIABLES
    kind,           \* which command runs the loop
    noSave,         \* --no-save
    outputPath,     \* --output
    pollInterval,   \* --poll-interval
    pc,             \* position of the command's goroutine
    ctxDone,        \* ctx.Done() is closed
    pollTickerC,    \* number of ticks buffered in pollTicker.C (capacity 1)
    spinnerTickerC, \* number of ticks buffered in spinnerTicker.C (capacity 1)
    spinnerIndex,
    currentStatus,
    stdout,         \* progress-line writes, in order
    result,         \* what the command returned
    fetchesIssued,  \* status fetches started
    inflight,       \* status fetches started and not yet returned
    fetchCtxDone,   \* ctx was already cancelled when the outstanding fetch was issued
    fetchLog,       \* results of the status fetches that returned, in order
    fs,             \* directories and files the command created
    downloads,      \* http.Get requests issued for a result file
    call,           \* a function or command examined on its own, with its inputs
    ret,            \* what that call returned
    viper,          \* state of the configuration library in the running process
    disk,           \* the configuration file
    environ,        \* MIRAKO_ environment variables, by configuration key
    login,          \* the run of auth login that waits at its prompt
    gpc,            \* position of the goroutine that makes the speech API call
    resultChan,     \* values buffered in resultChan
    errorChan,      \* values buffered in errorChan
    delivered       \* values the goroutine has sent, in order

vars == <<kind, noSave, outputPath, pollInterval, pc, ctxDone, pollTickerC,
          spinnerTickerC, spinnerIndex, currentStatus, stdout, result,
          fetchesIssued, inflight, fetchCtxDone, fetchLog, fs, downloads, call, ret,
          viper, disk, environ, login, gpc, resultChan, errorChan, delivered>>

(***************************************************************************)
(* Bounds                                                                  *)
(***************************************************************************)
MaxPolls == 2
MaxFrames == 2

Nil == "<nil>"

\* a map without keys
EmptyMap == [k \in {} |-> ""]

\* the configuration library before any call configured it
NewViper == [override |-> EmptyMap, config |-> EmptyMap, defaults |-> EmptyMap]

\* no configuration file
NoConfigFile == [exists |-> FALSE, settings |-> EmptyMap]

\* no run of auth login waits at its prompt
NoLogin == [pending |-> FALSE]

\* no configuration is loaded or saved
StoreIdle ==
    viper = NewViper /\ disk = NoConfigFile /\ environ = EmptyMap /\ login = NoLogin

storeVars == <<viper, disk, environ, login>>

\* no speech command runs
SpeechIdle == gpc = [at |-> "none"] /\ resultChan = <<>> /\ errorChan = <<>> /\ delivered = <<>>

speechVars == <<gpc, resultChan, errorChan, delivered>>

\* no call is examined; the call has not returned
NoCall == [fn |-> "none"]

NoRet == [done |-> FALSE]

(***************************************************************************)
(* String helpers (strings package)                                        *)
(***************************************************************************)
HasPrefix(s, p) == Len(s) >= Len(p) /\ SubSeq(s, 1, Len(p)) = p

HasSuffix(s, p) == Len(s) >= Len(p) /\ SubSeq(s, Len(s) - Len(p) + 1, Len(s)) = p

UpperChars == <<"A","B","C","D","E","F","G","H","I","J","K","L","M",
                "N","O","P","Q","R","S","T","U","V","W","X","Y","Z">>

LowerChars == <<"a","b","c","d","e","f","g","h","i","j","k","l","m",
                "n","o","p","q","r","s","t","u","v","w","x","y","z">>

ToLowerChar(c) ==
    IF \E i \in 1..26 : UpperChars[i] = c
    THEN LowerChars[CHOOSE i \in 1..26 : UpperChars[i] = c]
    ELSE c

ToLower(s) == [i \in 1..Len(s) |-> ToLowerChar(s[i])]

\* strings.Index for a one-character separator: 0-based index, -1 when absent
Index(s, c) ==
    IF \E i \in 1..Len(s) : s[i] = c
    THEN (CHOOSE i \in 1..Len(s) : s[i] = c /\ \A j \in 1..(i-1) : s[j] # c) - 1
    ELSE -1

LastIndex(s, c) ==
    IF \E i \in 1..Len(s) : s[i] = c
    THEN (CHOOSE i \in 1..Len(s) : s[i] = c /\ \A j \in (i+1)..Len(s) : s[j] # c) - 1
    ELSE -1

(***************************************************************************)
(* encoding/base64: StdEncoding.DecodeString (standard alphabet, padded,   *)
(* line breaks skipped).  Bytes are integers 0..255.                       *)
(***************************************************************************)
B64Chars == <<"A","B","C","D","E","F","G","H","I","J","K","L","M","N","O","P",
              "Q","R","S","T","U","V","W","X","Y","Z","a","b","c","d","e","f",
              "g","h","i","j","k","l","m","n","o","p","q","r","s","t","u","v",
              "w","x","y","z","0","1","2","3","4","5","6","7","8","9","+","/">>

IsB64Char(c) == \E i \in 1..64 : B64Chars[i] = c

B64Val(c) == (CHOOSE i \in 1..64 : B64Chars[i] = c) - 1

RECURSIVE StripNewlines(_)
StripNewlines(s) ==
    IF s = <<>> THEN <<>>
    ELSE IF Head(s) \in {"\n", "\r"} THEN StripNewlines(Tail(s))
    ELSE <<Head(s)>> \o StripNewlines(Tail(s))

\* one quantum of four characters; `last` says it is the final quantum
QuantumOk(q, last) ==
    /\ IsB64Char(q[1]) /\ IsB64Char(q[2])
    /\ \/ IsB64Char(q[3]) /\ IsB64Char(q[4])
       \/ last /\ IsB64Char(q[3]) /\ q[4] = "="
       \/ last /\ q[3] = "=" /\ q[4] = "="

QuantumBytes(q) ==
    LET v3 == IF q[3] = "=" THEN 0 ELSE B64Val(q[3])
        v4 == IF q[4] = "=" THEN 0 ELSE B64Val(q[4])
        v  == B64Val(q[1]) * 262144 + B64Val(q[2]) * 4096 + v3 * 64 + v4
        b1 == v \div 65536
        b2 == (v \div 256) % 256
        b3 == v % 256
    IN  IF q[3] = "=" THEN <<b1>>
        ELSE IF q[4] = "=" THEN <<b1, b2>>
        ELSE <<b1, b2, b3>>

RECURSIVE DecodeQuanta(_)
DecodeQuanta(t) ==
    IF t = <<>> THEN [ok |-> TRUE, bytes |-> <<>>]
    ELSE LET q    == SubSeq(t, 1, 4)
             rest == SubSeq(t, 5, Len(t))
         IN  IF ~QuantumOk(q, rest = <<>>) THEN [ok |-> FALSE, bytes |-> <<>>]
             ELSE LET r == DecodeQuanta(rest)
                  IN  IF r.ok THEN [ok |-> TRUE, bytes |-> QuantumBytes(q) \o r.bytes]
                      ELSE r

DecodeString(s) ==
    LET t == StripNewlines(s)
    IN  IF Len(t) % 4 # 0 THEN [ok |-> FALSE, bytes |-> <<>>]
        ELSE DecodeQuanta(t)

(***************************************************************************)
(* path/filepath                                                           *)
(***************************************************************************)
\* the elements of a path between its separators; cur is the element being read
RECURSIVE PathElems(_, _)
PathElems(path, cur) ==
    IF path = <<>> THEN <<cur>>
    ELSE IF Head(path) = "/" THEN <<cur>> \o PathElems(Tail(path), <<>>)
    ELSE PathElems(Tail(path), Append(cur, Head(path)))

\* filepath.Clean on the elements: empty and "." elements go, ".." removes
\* the element before it (or itself, right under the root)
RECURSIVE CleanElems(_, _, _)
CleanElems(elems, out, rooted) ==
    IF elems = <<>> THEN out
    ELSE LET e    == Head(elems)
             rest == Tail(elems)
         IN  IF e = <<>> \/ e = <<".">> THEN CleanElems(rest, out, rooted)
             ELSE IF e = <<".", ".">>
             THEN IF out # <<>> /\ out[Len(out)] # <<".", ".">>
                  THEN CleanElems(rest, SubSeq(out, 1, Len(out) - 1), rooted)
                  ELSE IF rooted THEN CleanElems(rest, out, rooted)
                  ELSE CleanElems(rest, Append(out, e), rooted)
             ELSE CleanElems(rest, Append(out, e), rooted)

RECURSIVE JoinElems(_)
JoinElems(elems) ==
    IF elems = <<>> THEN <<>>
    ELSE IF Len(elems) = 1 THEN elems[1]
    ELSE elems[1] \o <<"/">> \o JoinElems(Tail(elems))

\* filepath.Clean
Clean(path) ==
    IF path = <<>> THEN <<".">>
    ELSE LET rooted == path[1] = "/"
             out    == JoinElems(CleanElems(PathElems(path, <<>>), <<>>, rooted))
         IN  IF rooted THEN <<"/">> \o out
             ELSE IF out = <<>> THEN <<".">>
             ELSE out

\* filepath.Join(dir, name): the non-empty elements joined by a separator,
\* then cleaned; the empty string when both are empty
Join(dir, name) ==
    IF dir = <<>> /\ name = <<>> THEN <<>>
    ELSE IF dir = <<>> THEN Clean(name)
    ELSE IF name = <<>> THEN Clean(dir)
    ELSE Clean(dir \o <<"/">> \o name)

\* filepath.Dir: all but the last element of the path, cleaned
Dir(path) == Clean(SubSeq(path, 1, LastIndex(path, "/") + 1))

(***************************************************************************)
(* internal/errors: APIError                                               *)
(***************************************************************************)
\* net/http.StatusText: the registered status codes, "" for any other
StatusText(code) ==
    CASE code = 100 -> "Continue"
      [] code = 101 -> "Switching Protocols"
      [] code = 102 -> "Processing"
      [] code = 103 -> "Early Hints"
      [] code = 200 -> "OK"
      [] code = 201 -> "Created"
      [] code = 202 -> "Accepted"
      [] code = 203 -> "Non-Authoritative Information"
      [] code = 204 -> "No Content"
      [] code = 205 -> "Reset Content"
      [] code = 206 -> "Partial Content"
      [] code = 207 -> "Multi-Status"
      [] code = 208 -> "Already Reported"
      [] code = 226 -> "IM Used"
      [] code = 300 -> "Multiple Choices"
      [] code = 301 -> "Moved Permanently"
      [] code = 302 -> "Found"
      [] code = 303 -> "See Other"
      [] code = 304 -> "Not Modified"
      [] code = 305 -> "Use Proxy"
      [] code = 307 -> "Temporary Redirect"
      [] code = 308 -> "Permanent Redirect"
      [] code = 400 -> "Bad Request"
      [] code = 401 -> "Unauthorized"
      [] code = 402 -> "Payment Required"
      [] code = 403 -> "Forbidden"
      [] code = 404 -> "Not Found"
      [] code = 405 -> "Method Not Allowed"
      [] code = 406 -> "Not Acceptable"
      [] code = 407 -> "Proxy Authentication Required"
      [] code = 408 -> "Request Timeout"
      [] code = 409 -> "Conflict"
      [] code = 410 -> "Gone"
      [] code = 411 -> "Length Required"
      [] code = 412 -> "Precondition Failed"
      [] code = 413 -> "Request Entity Too Large"
      [] code = 414 -> "Request URI Too Long"
      [] code = 415 -> "Unsupported Media Type"
      [] code = 416 -> "Requested Range Not Satisfiable"
      [] code = 417 -> "Expectation Failed"
      [] code = 418 -> "I'm a teapot"
      [] code = 421 -> "Misdirected Request"
      [] code = 422 -> "Unprocessable Entity"
      [] code = 423 -> "Locked"
      [] code = 424 -> "Failed Dependency"
      [] code = 425 -> "Too Early"
      [] code = 426 -> "Upgrade Required"
      [] code = 428 -> "Precondition Required"
      [] code = 429 -> "Too Many Requests"
      [] code = 431 -> "Request Header Fields Too Large"
      [] code = 451 -> "Unavailable For Legal Reasons"
      [] code = 500 -> "Internal Server Error"
      [] code = 501 -> "Not Implemented"
      [] code = 502 -> "Bad Gateway"
      [] code = 503 -> "Service Unavailable"
      [] code = 504 -> "Gateway Timeout"
      [] code = 505 -> "HTTP Version Not Supported"
      [] code = 506 -> "Variant Also Negotiates"
      [] code = 507 -> "Insufficient Storage"
      [] code = 508 -> "Loop Detected"
      [] code = 510 -> "Not Extended"
      [] code = 511 -> "Network Authentication Required"
      [] OTHER -> ""

\* a response body as HandleHTTPError reads it: absent, empty, text that is
\* no JSON object, or a JSON object with or without a "detail" string
NilBody == [kind |-> "nil", detail |-> Nil]
EmptyBody == [kind |-> "empty", detail |-> Nil]
TextBody == [kind |-> "text", detail |-> Nil]
JSONBody(detail) == [kind |-> "json", detail |-> detail]

\* io.ReadAll of the body yields at least one byte
HasBytes(body) == body.kind \in {"text", "json"}

\* json.Unmarshal of the body into an api.ErrorModel succeeds
Unmarshals(body) == body.kind = "json"

NoError ==
    [type |-> "none", StatusCode |-> 0, ErrorModel |-> FALSE, Detail |-> Nil,
     Message |-> ""]

\* HandleHTTPError: nil for a 2xx response; otherwise an APIError whose
\* ErrorModel is attached when the body is non-empty and unmarshals, and whose
\* Message is the status text when no detail was found
HandleHTTPError(code, body) ==
    IF code >= 200 /\ code < 300 THEN NoError
    ELSE LET attached == HasBytes(body) /\ Unmarshals(body)
             detail == IF attached THEN body.detail ELSE Nil
         IN  [type |-> "api", StatusCode |-> code, ErrorModel |-> attached,
              Detail |-> detail,
              Message |-> IF detail = Nil THEN StatusText(code) ELSE ""]

\* a transport-level failure: a plain error with its text
TransportError(text) ==
    [type |-> "plain", StatusCode |-> 0, ErrorModel |-> FALSE, Detail |-> Nil,
     Message |-> text]

\* (*APIError).Error, and error.Error of a plain error
ErrorText(e) ==
    IF e.type = "plain" THEN <<e.Message>>
    ELSE IF e.Message # "" THEN <<e.Message>>
    ELSE IF e.ErrorModel /\ e.Detail # Nil
    THEN <<"API error (", ToString(e.StatusCode), "): ", e.Detail>>
    ELSE <<"API error (", ToString(e.StatusCode), ")">>

\* GetUserFriendlyMessage with the detail of the body consulted before the
\* status code
GetUserFriendlyMessageDetailFirst(e) ==
    IF e.ErrorModel /\ e.Detail # Nil THEN <<e.Detail>>
    ELSE IF e.StatusCode = 402
    THEN <<"Insufficient credits. Please upgrade your plan or purchase more credits at https://mirako.ai/billing">>
    ELSE IF e.StatusCode = 401 \/ e.StatusCode = 403
    THEN <<"Authentication failed. Please run 'mirako auth login' to authenticate">>
    ELSE IF e.StatusCode = 429
    THEN <<"Rate limit exceeded. Please wait a moment and try again">>
    ELSE IF e.StatusCode = 404
    THEN <<"Resource not found. Please check the ID and try again">>
    ELSE <<"API request failed with status ", ToString(e.StatusCode)>>

GetUserFriendlyMessage(e) ==
    IF e.StatusCode = 402
    THEN <<"Insufficient credits. Please upgrade your plan or purchase more credits at https://mirako.ai/billing">>
    ELSE IF e.StatusCode = 401 \/ e.StatusCode = 403
    THEN <<"Authentication failed. Please run 'mirako auth login' to authenticate">>
    ELSE IF e.StatusCode = 429
    THEN <<"Rate limit exceeded. Please wait a moment and try again">>
    ELSE IF e.StatusCode = 404
    THEN <<"Resource not found. Please check the ID and try again">>
    ELSE IF e.ErrorModel /\ e.Detail # Nil THEN <<e.Detail>>
    ELSE <<"API request failed with status ", ToString(e.StatusCode)>>

(***************************************************************************)
(* Job kinds and the vocabulary of their status endpoints                  *)
(***************************************************************************)
Kinds == {"image", "avatar", "talking", "motion", "build", "voice"}

InlineKinds == {"image", "avatar"}      \* payload: base64 image
UrlKinds == {"talking", "motion"}       \* payload: URL of the video
GenerationKinds == InlineKinds \cup UrlKinds

\* the status the code treats as success
CompletedStatus(k) == IF k = "build" THEN "READY" ELSE "COMPLETED"

\* the statuses the code treats as terminal failures
FailureStatuses(k) ==
    IF k = "build" THEN {"ERROR"} ELSE {"FAILED", "CANCELED", "TIMEDOUT"}

NonTerminalStatuses(k) ==
    CASE k = "build" -> {"PENDING", "BUILDING"}
      [] k = "voice" -> {"IN_QUEUE", "PROCESSING"}
      [] OTHER -> {"PENDING", "PROCESSING"}

\* currentStatus before the first status fetch returns
InitialStatus(k) ==
    CASE k = "build" -> "PENDING"
      [] k = "voice" -> "IN_QUEUE"
      [] OTHER -> "PROCESSING"

\* whether the command translates an APIError with GetUserFriendlyMessage
UsesFriendlyMessage(k) == k \in {"image", "talking", "motion", "voice"}

StatusCheckPrefix(k) ==
    IF k = "build" THEN "failed to check avatar status: "
    ELSE "failed to check status: "

FailurePrefix(k) ==
    CASE k = "image" -> "image generation failed with status: "
      [] k = "avatar" -> "avatar generation failed with status: "
      [] k = "talking" -> "talking avatar video generation failed with status: "
      [] k = "motion" -> "avatar motion video generation failed with status: "
      [] k = "build" -> "avatar build failed with status: "
      [] k = "voice" -> "voice cloning failed with status: "

(***************************************************************************)
(* What a command returns                                                  *)
(***************************************************************************)
Running == [kind |-> "running", msg |-> <<>>]

Success == [kind |-> "success", msg |-> <<>>]

Failure(k, m) == [kind |-> k, msg |-> m]

\* a nil pointer dereference ends the process without a returned error
Panic == [kind |-> "panic", msg |-> <<"nil pointer dereference">>]

(***************************************************************************)
(* Result materializer                                                     *)
(***************************************************************************)
DefaultSavePath == <<"d">>

\* the formatted time.Now() of the default file name
Timestamp == <<"T">>

ExtJpg == <<".","j","p","g">>

ExtJpeg == <<".","j","p","e","g">>

ExtMp4 == <<".","m","p","4">>

DataImagePrefix == <<"d","a","t","a",":","i","m","a","g","e">>

DefaultFilename(k) ==
    CASE k = "image" -> <<"i","m","a","g","e","_">> \o Timestamp \o ExtJpg
      [] k = "avatar" -> <<"a","v","a","t","a","r","_">> \o Timestamp \o ExtJpg
      [] OTHER -> <<"v","i","d","e","o","_">> \o Timestamp \o ExtMp4

ResolveOutputPath(k, path) ==
    IF path = <<>> THEN Join(DefaultSavePath, DefaultFilename(k)) ELSE path

\* EnsureJpgExt that accepts the .jpg suffix only
EnsureJpgExtJpgOnly(path) ==
    IF ~HasSuffix(ToLower(path), ExtJpg) THEN path \o ExtJpg ELSE path

EnsureJpgExt(path) ==
    IF ~HasSuffix(ToLower(path), ExtJpg) /\ ~HasSuffix(ToLower(path), ExtJpeg)
    THEN path \o ExtJpg
    ELSE path

EnsureMp4Ext(path) ==
    IF ~HasSuffix(ToLower(path), ExtMp4) THEN path \o ExtMp4 ELSE path

StripDataURLPrefix(imageData) ==
    IF HasPrefix(imageData, DataImagePrefix)
    THEN LET commaIndex == Index(imageData, ",")
         IN  IF commaIndex # -1
             THEN SubSeq(imageData, commaIndex + 2, Len(imageData))
             ELSE imageData
    ELSE imageData

\* os.MkdirAll / os.WriteFile / os.Create on the modelled file system
MkdirAll(f, dir) == [f EXCEPT !.dirs = @ \cup {dir}]

WriteFile(f, path, bytes) ==
    [f EXCEPT !.files = {x \in @ : x.path # path} \cup {[path |-> path, content |-> bytes]}]

\* saveImageFromBase64, and the same steps inlined in avatar generate.
\* env says which of the operating system's calls succeed.
SaveImage(k, imageData, path, env, f) ==
    LET out     == EnsureJpgExt(ResolveOutputPath(k, path))
        decoded == DecodeString(StripDataURLPrefix(imageData))
        dir     == Dir(out)
    IN  IF ~decoded.ok
        THEN [result |-> Failure("decode", <<"failed to decode image data: ", "illegal base64 data">>),
              gets |-> 0, fs |-> f]
        ELSE IF ~env.mkdirOk
        THEN [result |-> Failure("io", <<"failed to create directory: ", "permission denied">>),
              gets |-> 0, fs |-> f]
        ELSE IF ~env.writeOk
        THEN [result |-> Failure("io", <<"failed to save image: ", "permission denied">>),
              gets |-> 0, fs |-> MkdirAll(f, dir)]
        ELSE [result |-> Success,
              gets |-> 0, fs |-> WriteFile(MkdirAll(f, dir), out, decoded.bytes)]

\* the path of the file a completed video is saved to
VideoOut(k, path) == EnsureMp4Ext(ResolveOutputPath(k, path))

\* the download of a completed video: MkdirAll, http.Get, os.Create, io.Copy.
\* env.dlCode is the HTTP status of the download, 0 for a transport failure.
DownloadVideo(k, videoURL, path, env, f) ==
    LET out == VideoOut(k, path)
        dir == Dir(out)
    IN  IF ~env.mkdirOk
        THEN [result |-> Failure("io", <<"failed to create directory: ", "permission denied">>),
              gets |-> 0, fs |-> f]
        ELSE IF env.dlCode = 0
        THEN [result |-> Failure("download", <<"failed to download video: ", "connection refused">>),
              gets |-> 1, fs |-> MkdirAll(f, dir)]
        ELSE IF env.dlCode # 200
        THEN [result |-> Failure("download", <<"failed to download video: HTTP ", ToString(env.dlCode)>>),
              gets |-> 1, fs |-> MkdirAll(f, dir)]
        ELSE IF ~env.writeOk
        THEN [result |-> Failure("io", <<"failed to create output file: ", "permission denied">>),
              gets |-> 1, fs |-> MkdirAll(f, dir)]
        ELSE IF ~env.copyOk
        THEN [result |-> Failure("io", <<"failed to save video: ", "unexpected EOF">>),
              gets |-> 1, fs |-> WriteFile(MkdirAll(f, dir), out, <<>>)]
        ELSE [result |-> Success,
              gets |-> 1, fs |-> WriteFile(MkdirAll(f, dir), out, env.body)]

(***************************************************************************)
(* What a status fetch can return                                          *)
(***************************************************************************)
NoPayload == [present |-> FALSE, value |-> <<>>]

Payload(v) == [present |-> TRUE, value |-> v]

NoDetail == [present |-> FALSE, value |-> ""]

Detail(v) == [present |-> TRUE, value |-> v]

\* base64 of the bytes "ABC"
ImageABC == <<"Q","U","J","D">>

\* the same image as a data URL
ImageABCDataURL == <<"d","a","t","a",":","i","m","a","g","e","/","j","p","e","g",";","b","a","s","e","6","4",",","Q","U","J","D">>

\* not base64: an incomplete quantum
ImageCorrupt == <<"Q","U","J">>

VideoURL == <<"u">>

ProfileId == <<"p">>

VideoBody == <<1, 2>>

Payloads(k) ==
    CASE k \in InlineKinds -> {NoPayload, Payload(ImageABC), Payload(ImageABCDataURL),
                              Payload(ImageCorrupt)}
      [] k \in UrlKinds -> {NoPayload, Payload(VideoURL)}
      [] k = "voice" -> {NoPayload, Payload(ProfileId)}
      [] OTHER -> {NoPayload}

ErrorDetails == {NoDetail, Detail(""), Detail("quota exceeded")}

\* (response, error) of a client.Get...Status call
FetchResult(err, hasData, status, payload, detail) ==
    [err |-> err, hasData |-> hasData, Status |-> status, Payload |-> payload,
     Error |-> detail]

ContextCanceled == TransportError("context canceled")

FetchErrors ==
    {TransportError("connection refused")}
        \cup {HandleHTTPError(c, b) : c \in {401, 402, 404, 429, 500},
                                      b \in {EmptyBody, JSONBody("task lookup failed")}}

StatusResults(k) ==
    {FetchResult(NoError, FALSE, "", NoPayload, NoDetail)}
        \cup {FetchResult(NoError, TRUE, s, NoPayload, NoDetail) : s \in NonTerminalStatuses(k)}
        \cup {FetchResult(NoError, TRUE, CompletedStatus(k), p, NoDetail) : p \in Payloads(k)}
        \cup {FetchResult(NoError, TRUE, s, NoPayload, d) :
                  s \in FailureStatuses(k), d \in ErrorDetails}

\* A fetch issued with a cancelled context fails at once; one that is in
\* flight when the context is cancelled either fails with the context's
\* error or has already got its answer.
FetchResults(k, issuedDone, nowDone) ==
    IF issuedDone
    THEN {FetchResult(ContextCanceled, FALSE, "", NoPayload, NoDetail)}
    ELSE (IF nowDone THEN {FetchResult(ContextCanceled, FALSE, "", NoPayload, NoDetail)} ELSE {})
             \cup {FetchResult(e, FALSE, "", NoPayload, NoDetail) : e \in FetchErrors}
             \cup StatusResults(k)

\* which calls of the operating system and of the download succeed
Envs == [mkdirOk : BOOLEAN, writeOk : BOOLEAN, copyOk : BOOLEAN,
         dlCode : {0, 200, 404}, body : {VideoBody}]

AllOk == [mkdirOk |-> TRUE, writeOk |-> TRUE, copyOk |-> TRUE, dlCode |-> 200,
          body |-> VideoBody]

\* the environments that matter to a fetch result: those calls are made only
\* when a completed generation job's payload is saved
EnvsFor(k, nosave, resp) ==
    IF resp.err.type = "none" /\ resp.hasData /\ resp.Payload.present /\ ~nosave
    THEN IF k \in UrlKinds THEN Envs
         ELSE IF k \in InlineKinds
         THEN {e \in Envs : e.copyOk /\ e.dlCode = 200}
         ELSE {AllOk}
    ELSE {AllOk}

(***************************************************************************)
(* The body of the poll-tick branch, after the status fetch returned       *)
(***************************************************************************)
\* the error returned when the status fetch failed
StatusCheckError(k, err) ==
    IF UsesFriendlyMessage(k) /\ err.type = "api"
    THEN Failure("status_check", GetUserFriendlyMessage(err))
    ELSE Failure("status_check", <<StatusCheckPrefix(k)>> \o ErrorText(err))

\* the error returned for FAILED, CANCELED, TIMEDOUT (ERROR for a build)
JobFailure(k, resp) ==
    IF k = "voice" /\ resp.Error.present /\ resp.Error.value # ""
    THEN Failure("job_failed", <<"voice cloning failed: ", resp.Error.value>>)
    ELSE Failure("job_failed", <<FailurePrefix(k), resp.Status>>)

\* OnCompleted with the --no-save test dropped
OnCompletedIgnoringNoSave(k, nosave, path, resp, env, f) ==
    CASE k \in InlineKinds /\ resp.Payload.present ->
            SaveImage(k, resp.Payload.value, path, env, f)
      [] k \in UrlKinds /\ resp.Payload.present ->
            DownloadVideo(k, resp.Payload.value, path, env, f)
      [] OTHER -> [result |-> Success, gets |-> 0, fs |-> f]

\* OnCompleted with --no-save honoured for inline payloads only: a completed
\* video is downloaded whatever the flag says
OnCompletedNoSaveStillDownloads(k, nosave, path, resp, env, f) ==
    CASE k \in InlineKinds ->
            IF resp.Payload.present /\ ~nosave
            THEN SaveImage(k, resp.Payload.value, path, env, f)
            ELSE [result |-> Success, gets |-> 0, fs |-> f]
      [] k \in UrlKinds ->
            IF resp.Payload.present
            THEN DownloadVideo(k, resp.Payload.value, path, env, f)
            ELSE [result |-> Success, gets |-> 0, fs |-> f]
      [] k = "voice" ->
            IF resp.Payload.present THEN [result |-> Success, gets |-> 0, fs |-> f]
            ELSE [result |-> Panic, gets |-> 0, fs |-> f]
      [] OTHER -> [result |-> Success, gets |-> 0, fs |-> f]

\* what the COMPLETED branch returns, and the file system it leaves
OnCompleted(k, nosave, path, resp, env, f) ==
    CASE k \in InlineKinds ->
            IF resp.Payload.present
            THEN IF nosave THEN [result |-> Success, gets |-> 0, fs |-> f]
                 ELSE SaveImage(k, resp.Payload.value, path, env, f)
            ELSE [result |-> Success, gets |-> 0, fs |-> f]
      [] k \in UrlKinds ->
            IF resp.Payload.present
            THEN IF nosave THEN [result |-> Success, gets |-> 0, fs |-> f]
                 ELSE DownloadVideo(k, resp.Payload.value, path, env, f)
            ELSE [result |-> Success, gets |-> 0, fs |-> f]
      [] k = "voice" ->
            \* *statusResp.Data.ProfileId is dereferenced unchecked
            IF resp.Payload.present THEN [result |-> Success, gets |-> 0, fs |-> f]
            ELSE [result |-> Panic, gets |-> 0, fs |-> f]
      [] OTHER -> [result |-> Success, gets |-> 0, fs |-> f]

\* OnFetchResult with every status other than the completed one treated as a
\* failure (an else where the code has an else-if)
OnFetchResultElseFails(k, nosave, path, cur, resp, env, f) ==
    IF resp.err.type # "none"
    THEN [currentStatus |-> cur, clear |-> TRUE,
          result |-> StatusCheckError(k, resp.err), gets |-> 0, fs |-> f]
    ELSE IF ~resp.hasData
    THEN [currentStatus |-> cur, clear |-> TRUE,
          result |-> Failure("unexpected", <<"unexpected response from server">>), gets |-> 0, fs |-> f]
    ELSE IF resp.Status = CompletedStatus(k)
    THEN LET m == OnCompleted(k, nosave, path, resp, env, f)
         IN  [currentStatus |-> resp.Status, clear |-> TRUE,
              result |-> m.result, gets |-> m.gets, fs |-> m.fs]
    ELSE [currentStatus |-> resp.Status, clear |-> TRUE,
          result |-> JobFailure(k, resp), gets |-> 0, fs |-> f]

\* OnFetchResult with a failed status fetch retried at the next tick
OnFetchResultRetrying(k, nosave, path, cur, resp, env, f) ==
    IF resp.err.type # "none"
    THEN [currentStatus |-> cur, clear |-> FALSE, result |-> Running, gets |-> 0, fs |-> f]
    ELSE IF ~resp.hasData
    THEN [currentStatus |-> cur, clear |-> TRUE,
          result |-> Failure("unexpected", <<"unexpected response from server">>), gets |-> 0, fs |-> f]
    ELSE IF resp.Status = CompletedStatus(k)
    THEN LET m == OnCompleted(k, nosave, path, resp, env, f)
         IN  [currentStatus |-> resp.Status, clear |-> TRUE,
              result |-> m.result, gets |-> m.gets, fs |-> m.fs]
    ELSE IF resp.Status \in FailureStatuses(k)
    THEN [currentStatus |-> resp.Status, clear |-> TRUE,
          result |-> JobFailure(k, resp), gets |-> 0, fs |-> f]
    ELSE [currentStatus |-> resp.Status, clear |-> FALSE, result |-> Running, gets |-> 0, fs |-> f]

\* OnFetchResult with the clearLine print missing on the missing-data return
OnFetchResultNoClear(k, nosave, path, cur, resp, env, f) ==
    IF resp.err.type # "none"
    THEN [currentStatus |-> cur, clear |-> TRUE,
          result |-> StatusCheckError(k, resp.err), gets |-> 0, fs |-> f]
    ELSE IF ~resp.hasData
    THEN [currentStatus |-> cur, clear |-> FALSE,
          result |-> Failure("unexpected", <<"unexpected response from server">>), gets |-> 0, fs |-> f]
    ELSE IF resp.Status = CompletedStatus(k)
    THEN LET m == OnCompleted(k, nosave, path, resp, env, f)
         IN  [currentStatus |-> resp.Status, clear |-> TRUE,
              result |-> m.result, gets |-> m.gets, fs |-> m.fs]
    ELSE IF resp.Status \in FailureStatuses(k)
    THEN [currentStatus |-> resp.Status, clear |-> TRUE,
          result |-> JobFailure(k, resp), gets |-> 0, fs |-> f]
    ELSE [currentStatus |-> resp.Status, clear |-> FALSE, result |-> Running, gets |-> 0, fs |-> f]

\* OnFetchResult with currentStatus assigned only on the terminal branches
OnFetchResultStaleStatus(k, nosave, path, cur, resp, env, f) ==
    IF resp.err.type # "none"
    THEN [currentStatus |-> cur, clear |-> TRUE,
          result |-> StatusCheckError(k, resp.err), gets |-> 0, fs |-> f]
    ELSE IF ~resp.hasData
    THEN [currentStatus |-> cur, clear |-> TRUE,
          result |-> Failure("unexpected", <<"unexpected response from server">>), gets |-> 0, fs |-> f]
    ELSE IF resp.Status = CompletedStatus(k)
    THEN LET m == OnCompleted(k, nosave, path, resp, env, f)
         IN  [currentStatus |-> resp.Status, clear |-> TRUE,
              result |-> m.result, gets |-> m.gets, fs |-> m.fs]
    ELSE IF resp.Status \in FailureStatuses(k)
    THEN [currentStatus |-> resp.Status, clear |-> TRUE,
          result |-> JobFailure(k, resp), gets |-> 0, fs |-> f]
    ELSE [currentStatus |-> cur, clear |-> FALSE, result |-> Running, gets |-> 0, fs |-> f]

\* The whole branch: the new currentStatus, whether clearLine is printed,
\* what is returned (Running: the loop goes on) and the file system.
OnFetchResult(k, nosave, path, cur, resp, env, f) ==
    IF resp.err.type # "none"
    THEN [currentStatus |-> cur, clear |-> TRUE,
          result |-> StatusCheckError(k, resp.err), gets |-> 0, fs |-> f]
    ELSE IF ~resp.hasData
    THEN [currentStatus |-> cur, clear |-> TRUE,
          result |-> Failure("unexpected", <<"unexpected response from server">>), gets |-> 0, fs |-> f]
    ELSE IF resp.Status = CompletedStatus(k)
    THEN LET m == OnCompleted(k, nosave, path, resp, env, f)
         IN  [currentStatus |-> resp.Status, clear |-> TRUE,
              result |-> m.result, gets |-> m.gets, fs |-> m.fs]
    ELSE IF resp.Status \in FailureStatuses(k)
    THEN [currentStatus |-> resp.Status, clear |-> TRUE,
          result |-> JobFailure(k, resp), gets |-> 0, fs |-> f]
    ELSE [currentStatus |-> resp.Status, clear |-> FALSE, result |-> Running, gets |-> 0, fs |-> f]

(***************************************************************************)
(* The poll loop                                                           *)
(***************************************************************************)
SpinnerFramesLen == 10

ClearLine == [t |-> "clear", frame |-> 0, status |-> ""]

\* "\r\033[K%s Status: %s" with spinnerFrames[spinnerIndex % len] and currentStatus
SpinnerLine(index, status) ==
    [t |-> "frame", frame |-> index % SpinnerFramesLen, status |-> status]

OutputPaths == {<<>>, <<"o">>}

PollIntervals == {-1, 0, 2}

Init ==
    /\ kind \in Kinds
    /\ noSave \in BOOLEAN
    /\ outputPath \in OutputPaths
    /\ pollInterval \in PollIntervals
    /\ pc = "tickers"
    /\ ctxDone = FALSE
    /\ pollTickerC = 0
    /\ spinnerTickerC = 0
    /\ spinnerIndex = 0
    /\ currentStatus = InitialStatus(kind)
    /\ stdout = <<>>
    /\ result = Running
    /\ fetchesIssued = 0
    /\ inflight = 0
    /\ fetchCtxDone = FALSE
    /\ fetchLog = <<>>
    /\ fs = [dirs |-> {<<".">>}, files |-> {}]
    /\ downloads = 0
    /\ call = NoCall
    /\ ret = NoRet
    /\ StoreIdle
    /\ SpeechIdle

\* what no step of the poll loop changes: its command line, and the record of
\* a call examined on its own
inputs == <<kind, noSave, outputPath, pollInterval, call, ret, storeVars, speechVars>>

\* NewTickers without the panic of time.NewTicker
NewTickersUnchecked ==
    /\ pc = "tickers"
    /\ pc' = "select" /\ result' = result
    /\ UNCHANGED <<inputs, ctxDone, pollTickerC, spinnerTickerC, spinnerIndex,
                   currentStatus, stdout, fetchesIssued, inflight, fetchCtxDone,
                   fetchLog, fs, downloads>>

\* the interval of the spinner ticker, in milliseconds
SpinnerIntervalMs == 100

\* time.NewTicker panics on a non-positive interval
NewTickers ==
    /\ pc = "tickers"
    /\ IF pollInterval > 0
       THEN pc' = "select" /\ result' = result
       ELSE pc' = "done" /\ result' = [kind |-> "panic", msg |-> <<"non-positive interval for NewTicker">>]
    /\ UNCHANGED <<inputs, ctxDone, pollTickerC, spinnerTickerC, spinnerIndex,
                   currentStatus, stdout, fetchesIssued, inflight, fetchCtxDone,
                   fetchLog, fs, downloads>>

\* the runtime delivers a tick into the ticker's one-slot channel
PollTick ==
    /\ pc \in {"select", "fetching", "downloading", "copying"}
    /\ pollTickerC = 0
    /\ pollTickerC' = 1
    /\ UNCHANGED <<inputs, pc, ctxDone, spinnerTickerC, spinnerIndex, currentStatus,
                   stdout, result, fetchesIssued, inflight, fetchCtxDone, fetchLog, fs, downloads>>

SpinnerTick ==
    /\ pc \in {"select", "fetching", "downloading", "copying"}
    /\ spinnerTickerC = 0
    /\ spinnerTickerC' = 1
    /\ UNCHANGED <<inputs, pc, ctxDone, pollTickerC, spinnerIndex, currentStatus,
                   stdout, result, fetchesIssued, inflight, fetchCtxDone, fetchLog, fs, downloads>>

\* the caller cancels the command's context (interrupt)
Cancel ==
    /\ pc \in {"tickers", "select", "fetching", "downloading", "copying"}
    /\ ~ctxDone
    /\ ctxDone' = TRUE
    /\ UNCHANGED <<inputs, pc, pollTickerC, spinnerTickerC, spinnerIndex, currentStatus,
                   stdout, result, fetchesIssued, inflight, fetchCtxDone, fetchLog, fs, downloads>>

\* select: case <-ctx.Done()
SelectDone ==
    /\ pc = "select"
    /\ ctxDone
    /\ stdout' = Append(stdout, ClearLine)
    /\ result' = Failure("cancelled", <<"operation cancelled: ", "context canceled">>)
    /\ pc' = "done"
    /\ UNCHANGED <<inputs, ctxDone, pollTickerC, spinnerTickerC, spinnerIndex,
                   currentStatus, fetchesIssued, inflight, fetchCtxDone, fetchLog, fs, downloads>>

\* SelectPoll with the status fetch started on a goroutine of its own: the
\* loop goes back to the select while the fetch is outstanding
SelectPollAsync ==
    /\ pc = "select"
    /\ pollTickerC = 1
    /\ fetchesIssued < MaxPolls
    /\ pollTickerC' = 0
    /\ pc' = "select"
    /\ fetchesIssued' = fetchesIssued + 1
    /\ inflight' = inflight + 1
    /\ fetchCtxDone' = ctxDone
    /\ UNCHANGED <<inputs, ctxDone, spinnerTickerC, spinnerIndex, currentStatus,
                   stdout, result, fetchLog, fs, downloads>>

\* select: case <-pollTicker.C, up to the call of the status fetch
\* SelectPoll in a select that serves the spinner branch first whenever a
\* spinner tick is buffered
SelectPollAfterSpinner ==
    /\ pc = "select"
    /\ pollTickerC = 1
    /\ spinnerTickerC = 0
    /\ fetchesIssued < MaxPolls
    /\ pollTickerC' = 0
    /\ pc' = "fetching"
    /\ fetchesIssued' = fetchesIssued + 1
    /\ inflight' = inflight + 1
    /\ fetchCtxDone' = ctxDone
    /\ UNCHANGED <<inputs, ctxDone, spinnerTickerC, spinnerIndex, currentStatus,
                   stdout, result, fetchLog, fs, downloads>>

SelectPoll ==
    /\ pc = "select"
    /\ pollTickerC = 1
    /\ fetchesIssued < MaxPolls
    /\ pollTickerC' = 0
    /\ pc' = "fetching"
    /\ fetchesIssued' = fetchesIssued + 1
    /\ inflight' = inflight + 1
    /\ fetchCtxDone' = ctxDone
    /\ UNCHANGED <<inputs, ctxDone, spinnerTickerC, spinnerIndex, currentStatus,
                   stdout, result, fetchLog, fs, downloads>>

\* FetchReturn with a retry limit: the loop gives up when the last allowed
\* status fetch still reports a non-terminal status
FetchReturnRetryLimit ==
    /\ pc = "fetching"
    /\ \E resp \in FetchResults(kind, fetchCtxDone, ctxDone) :
       \E env \in EnvsFor(kind, noSave, resp) :
          LET r == OnFetchResult(kind, noSave, outputPath, currentStatus, resp, env, fs)
              giveUp == r.result = Running /\ Len(fetchLog) + 1 >= MaxPolls
          IN  /\ currentStatus' = r.currentStatus
              /\ stdout' = IF r.clear \/ giveUp THEN Append(stdout, ClearLine) ELSE stdout
              /\ result' = IF giveUp
                           THEN Failure("deadline", <<"timed out waiting for the task">>)
                           ELSE r.result
              /\ pc' = IF r.result = Running /\ ~giveUp THEN "select" ELSE "done"
              /\ fs' = r.fs
              /\ downloads' = downloads + r.gets
              /\ fetchLog' = Append(fetchLog, resp)
    /\ inflight' = inflight - 1
    /\ UNCHANGED <<inputs, ctxDone, pollTickerC, spinnerTickerC, spinnerIndex,
                   fetchesIssued, fetchCtxDone>>

\* the status fetch returns and the rest of the poll-tick branch runs
FetchReturn ==
    /\ pc = "fetching"
    /\ Len(fetchLog) < MaxPolls
    /\ \E resp \in FetchResults(kind, fetchCtxDone, ctxDone) :
       \E env \in EnvsFor(kind, noSave, resp) :
          LET r == OnFetchResult(kind, noSave, outputPath, currentStatus, resp, env, fs)
          IN  /\ currentStatus' = r.currentStatus
              /\ stdout' = IF r.clear THEN Append(stdout, ClearLine) ELSE stdout
              /\ downloads' = downloads + r.gets
              /\ fetchLog' = Append(fetchLog, resp)
              /\ IF r.gets > 0
                 THEN \* the branch reached http.Get: the directory is made and
                      \* the command waits for the answer
                      /\ result' = Running
                      /\ pc' = "downloading"
                      /\ fs' = MkdirAll(fs, Dir(VideoOut(kind, outputPath)))
                 ELSE /\ result' = r.result
                      /\ pc' = IF r.result = Running THEN "select" ELSE "done"
                      /\ fs' = r.fs
    /\ inflight' = inflight - 1
    /\ UNCHANGED <<inputs, ctxDone, pollTickerC, spinnerTickerC, spinnerIndex,
                   fetchesIssued, fetchCtxDone>>

\* http.Get(videoURL) returns: an error or a status other than 200 ends the
\* command, and so does a failure of os.Create; otherwise the output file
\* exists, empty, and the command waits in io.Copy
DownloadReturn ==
    /\ pc = "downloading"
    /\ \E env \in {e \in Envs : e.mkdirOk /\ e.copyOk} :
          LET r == DownloadVideo(kind, fetchLog[Len(fetchLog)].Payload.value, outputPath, env, fs)
          IN  IF env.dlCode = 200 /\ env.writeOk
              THEN /\ pc' = "copying"
                   /\ result' = result
                   /\ fs' = WriteFile(fs, VideoOut(kind, outputPath), <<>>)
              ELSE /\ pc' = "done"
                   /\ result' = r.result
                   /\ fs' = r.fs
    /\ UNCHANGED <<inputs, ctxDone, pollTickerC, spinnerTickerC, spinnerIndex,
                   currentStatus, stdout, fetchesIssued, inflight, fetchCtxDone,
                   fetchLog, downloads>>

\* io.Copy(outFile, resp.Body) returns, and the command with it
CopyReturn ==
    /\ pc = "copying"
    /\ \E env \in {e \in Envs : e.mkdirOk /\ e.writeOk /\ e.dlCode = 200} :
          LET r == DownloadVideo(kind, fetchLog[Len(fetchLog)].Payload.value, outputPath, env, fs)
          IN  /\ pc' = "done"
              /\ result' = r.result
              /\ fs' = r.fs
    /\ UNCHANGED <<inputs, ctxDone, pollTickerC, spinnerTickerC, spinnerIndex,
                   currentStatus, stdout, fetchesIssued, inflight, fetchCtxDone,
                   fetchLog, downloads>>

\* select: case <-spinnerTicker.C
SelectSpinner ==
    /\ pc = "select"
    /\ spinnerTickerC = 1
    /\ spinnerIndex < MaxFrames
    /\ spinnerTickerC' = 0
    /\ stdout' = Append(stdout, SpinnerLine(spinnerIndex, currentStatus))
    /\ spinnerIndex' = spinnerIndex + 1
    /\ UNCHANGED <<inputs, pc, ctxDone, pollTickerC, currentStatus, result,
                   fetchesIssued, inflight, fetchCtxDone, fetchLog, fs, downloads>>

Next ==
    \/ NewTickers
    \/ PollTick
    \/ SpinnerTick
    \/ Cancel
    \/ SelectDone
    \/ SelectPoll
    \/ FetchReturn
    \/ DownloadReturn
    \/ CopyReturn
    \/ SelectSpinner

Spec == Init /\ [][Next]_vars

(***************************************************************************)
(* Properties                                                              *)
(***************************************************************************)
Last(s) == s[Len(s)]

\* the message contains the text
Contains(msg, text) == text = "" \/ \E i \in 1..Len(msg) : msg[i] = text

InitialFs == [dirs |-> {<<".">>}, files |-> {}]

\* the command returned from inside the poll loop
LoopExited == pc = "done" /\ pollInterval > 0

\* the last status fetch returned a status in S
LastStatusIn(S) ==
    /\ fetchLog # <<>>
    /\ Last(fetchLog).err.type = "none"
    /\ Last(fetchLog).hasData
    /\ Last(fetchLog).Status \in S

ClearCount == Cardinality({i \in 1..Len(stdout) : stdout[i].t = "clear"})

\* C1 as stated: in every generation poll loop, whenever a status fetch
\* returns COMPLETED the command returns success and never an error, for
\* every payload value and every save setting.
C1_AlwaysSuccess ==
    (LoopExited /\ kind \in GenerationKinds /\ LastStatusIn({"COMPLETED"}))
        => result = Success

\* C1 as amended: when a status fetch returns COMPLETED in a generation poll
\* loop, the command returns success if --no-save is set or the payload is
\* absent (and then writes nothing); otherwise it returns success with the
\* payload written to a file, or the error of the save step that failed
\* (base64 decode, directory creation, download, file write).  It never
\* returns a job-failure, status-check or cancellation error.
C1_SuccessUnlessSaveFails ==
    (LoopExited /\ kind \in GenerationKinds /\ LastStatusIn({"COMPLETED"}))
        => /\ result.kind \in {"success", "decode", "io", "download"}
           /\ (noSave \/ ~Last(fetchLog).Payload.present)
                 => (result = Success /\ fs = InitialFs)
           /\ result.kind = "decode"
                 => (kind \in InlineKinds /\ Last(fetchLog).Payload.value = ImageCorrupt)
           /\ result.kind = "download" => kind \in UrlKinds
           /\ (result = Success /\ ~noSave /\ Last(fetchLog).Payload.present)
                 => \E x \in fs.files :
                       x.content = IF kind \in InlineKinds THEN <<65, 66, 67>> ELSE VideoBody

\* C1 witness: an image job completed with a data-URL payload that was saved
C1_Witness ==
    /\ LoopExited /\ kind = "image" /\ LastStatusIn({"COMPLETED"})
    /\ ~noSave
    /\ Last(fetchLog).Payload = Payload(ImageABCDataURL)
    /\ result = Success
    /\ fs.files # {}

\* C2 as stated: for image, avatar, video and voice clone, when a status
\* fetch returns FAILED, CANCELED or TIMEDOUT the returned error message
\* contains the errorDetail if the status response carries one, and otherwise
\* the literal terminal status.
C2_ErrorDetailInMessage ==
    (LoopExited /\ kind \in GenerationKinds \cup {"voice"}
        /\ LastStatusIn({"FAILED", "CANCELED", "TIMEDOUT"}))
        => /\ result.kind = "job_failed"
           /\ IF Last(fetchLog).Error.present
              THEN Contains(result.msg, Last(fetchLog).Error.value)
              ELSE Contains(result.msg, Last(fetchLog).Status)

\* C3 as stated: if the context is cancelled while the loop is running
\* (a poll tick pending or a status fetch in flight included), the command
\* returns the cancellation error and clearLine is printed exactly once.
C3_CancelWins ==
    (LoopExited /\ ctxDone)
        => (result.kind = "cancelled" /\ ClearCount = 1)

\* C4 as stated: whenever the cancellation signal and a poll tick are ready
\* together the loop takes the cancellation branch: no status fetch is issued
\* once the context is cancelled.
C4_NoFetchAfterCancel == [][ctxDone => fetchesIssued' = fetchesIssued]_vars

\* C5 as stated: while a status fetch is outstanding, a spinner tick that is
\* ready is served (the spinner branch can run).
C5_SpinnerServedDuringFetch ==
    (inflight > 0 /\ spinnerTickerC = 1 /\ spinnerIndex < MaxFrames)
        => ENABLED SelectSpinner

\* C6: after a status fetch returns a non-terminal status the loop returns
\* nothing and is back at the select with no fetch outstanding and the line
\* not cleared; a status fetch is issued exactly when the loop serves a poll
\* tick, one fetch for one tick.
C6_NonTerminalContinues ==
    [][/\ (pc = "fetching" /\ pc' # "fetching"
              /\ Last(fetchLog').err.type = "none" /\ Last(fetchLog').hasData
              /\ Last(fetchLog').Status \in NonTerminalStatuses(kind))
          => (pc' = "select" /\ result' = Running /\ inflight' = 0
                /\ fetchesIssued' = fetchesIssued /\ stdout' = stdout)
       /\ (fetchesIssued' # fetchesIssued)
          => (fetchesIssued' = fetchesIssued + 1 /\ pc = "select"
                /\ pollTickerC = 1 /\ pollTickerC' = 0)
       /\ (pc = "select" /\ pollTickerC = 1 /\ pollTickerC' = 0)
          => fetchesIssued' = fetchesIssued + 1
      ]_vars

\* C6 witness: a second status fetch is outstanding after the first returned
\* a non-terminal status
C6_Witness ==
    /\ pc = "fetching" /\ fetchesIssued = 2 /\ Len(fetchLog) = 1
    /\ LastStatusIn(NonTerminalStatuses(kind))
    /\ result = Running

\* the error e of a status fetch is carried by the message: the message is
\* e's user-friendly message or holds e's text
Carries(msg, e) ==
    \/ e.type = "api" /\ msg = GetUserFriendlyMessage(e)
    \/ \A i \in 1..Len(ErrorText(e)) : Contains(msg, ErrorText(e)[i])

\* C7: when a status fetch fails the loop exits in that iteration with an
\* error that carries the failure, and no status fetch is issued afterwards.
C7_FetchErrorExits ==
    [][/\ (pc = "fetching" /\ pc' # "fetching" /\ Last(fetchLog').err.type # "none")
          => (pc' = "done" /\ result'.kind = "status_check"
                /\ Carries(result'.msg, Last(fetchLog').err)
                /\ inflight' = 0 /\ fetchesIssued' = fetchesIssued)
       /\ (fetchLog # <<>> /\ Last(fetchLog).err.type # "none")
          => (fetchesIssued' = fetchesIssued /\ pc' = "done")
      ]_vars

\* C7 witness: the first status fetch failed with a connection error and the
\* command returned that error
C7_Witness ==
    /\ LoopExited /\ fetchesIssued = 1 /\ Len(fetchLog) = 1
    /\ Last(fetchLog).err = TransportError("connection refused")
    /\ result.kind = "status_check"
    /\ Contains(result.msg, "connection refused")

\* C8: at most one status fetch is outstanding, and a status fetch is issued
\* only by the poll-tick branch of the select, never by the spinner branch.
C8_OneFetchPollBranchOnly ==
    /\ [](inflight \in {0, 1})
    /\ [][/\ (fetchesIssued' # fetchesIssued)
             => (pc = "select" /\ pollTickerC = 1 /\ pollTickerC' = 0
                   /\ inflight = 0 /\ stdout' = stdout /\ spinnerIndex' = spinnerIndex)
          /\ (spinnerIndex' # spinnerIndex)
             => (fetchesIssued' = fetchesIssued /\ inflight' = inflight)
         ]_vars

\* C8 witness: a poll tick is pending while the one status fetch is outstanding
C8_Witness == inflight = 1 /\ pollTickerC = 1 /\ pc = "fetching" /\ spinnerIndex > 0

\* C9: clearLine is not printed while the loop polls; while a completed video
\* is downloaded and on every return from the loop it has been printed
\* exactly once, as the last progress write.
C9_ClearedOnce ==
    /\ pc \in {"tickers", "select", "fetching"} => ClearCount = 0
    /\ pc \in {"downloading", "copying"} => (ClearCount = 1 /\ Last(stdout).t = "clear")
    /\ LoopExited => (ClearCount = 1 /\ Last(stdout).t = "clear")

\* C9 witness: the loop returned for missing response data after drawing frames
C9_Witness ==
    /\ LoopExited /\ result.kind = "unexpected"
    /\ Len(stdout) = 3 /\ stdout[1].t = "frame" /\ stdout[2].t = "frame"

\* the label shown before any status fetch has returned
DefaultLabel(k) ==
    IF k = "build" THEN "PENDING"
    ELSE IF k \in GenerationKinds THEN "PROCESSING"
    ELSE "IN_QUEUE"

\* C10: every spinner frame shows the status of the most recently returned
\* status fetch, or the default label (PROCESSING for generation jobs, PENDING
\* for avatar build) when none has returned; the displayed status changes only
\* in the poll branch.
C10_SpinnerShowsLastStatus ==
    [][/\ (Len(stdout') = Len(stdout) + 1 /\ Last(stdout').t = "frame")
          => /\ Last(stdout').status =
                   IF fetchLog = <<>> THEN DefaultLabel(kind) ELSE Last(fetchLog).Status
             /\ currentStatus' = currentStatus
       /\ (currentStatus' # currentStatus)
          => (pc = "fetching" /\ Len(fetchLog') = Len(fetchLog) + 1
                /\ currentStatus' = Last(fetchLog').Status)
      ]_vars

\* C10 witness: an image job's frame shows PENDING, a status only a status
\* fetch can have delivered, after a frame that showed the default label
C10_Witness ==
    /\ kind = "image" /\ Len(stdout) >= 2
    /\ stdout[1] = SpinnerLine(0, "PROCESSING")
    /\ stdout[2] = SpinnerLine(1, "PENDING")

\* every status fetch that has returned succeeded with a non-terminal status
OnlyNonTerminalSoFar ==
    \A i \in 1..Len(fetchLog) :
        /\ fetchLog[i].err.type = "none"
        /\ fetchLog[i].hasData
        /\ fetchLog[i].Status \in NonTerminalStatuses(kind)

\* C11: once the loop is entered, as long as every status fetch has succeeded
\* with a non-terminal status and the context is not cancelled, the command
\* has not returned, whatever the number of fetches made; and a pending poll
\* tick is served by a further fetch only through the poll branch.
C11_PollsForever ==
    (pc # "tickers" /\ pollInterval > 0 /\ ~ctxDone /\ OnlyNonTerminalSoFar)
        => (pc \in {"select", "fetching"} /\ result = Running
              /\ fetchesIssued = Len(fetchLog) + inflight)

\* C11 witness: every fetch the bound allows has returned a non-terminal
\* status and the loop is back at the select with a poll tick pending
C11_Witness ==
    /\ pc = "select" /\ ~ctxDone /\ OnlyNonTerminalSoFar
    /\ Len(fetchLog) = MaxPolls /\ pollTickerC = 1 /\ result = Running

\* C12: with --no-save the poll loop creates no directory, creates or writes
\* no file and issues no download, in particular when it ends in COMPLETED.
C12_NoSaveWritesNothing ==
    noSave => (fs = InitialFs /\ downloads = 0)

\* C12 witness: a video job completed with a file URL under --no-save
C12_Witness ==
    /\ noSave /\ LoopExited /\ kind \in UrlKinds /\ result = Success
    /\ Last(fetchLog).Status = CompletedStatus(kind)
    /\ Last(fetchLog).Payload = Payload(VideoURL)


\* the tickers of the poll loop exist: created and not yet stopped
TimersExist == pc \in {"select", "fetching", "downloading", "copying"}

\* C17: whenever the tickers of a poll loop exist, the poll interval and the
\* spinner interval are strictly positive, whatever --poll-interval was given.
C17_PositiveIntervals ==
    TimersExist => (pollInterval > 0 /\ SpinnerIntervalMs > 0)

\* C17 witness: the tickers exist and both have delivered a tick
C17_Witness == TimersExist /\ pollTickerC = 1 /\ spinnerTickerC = 1

(***************************************************************************)
(* The result materializer called on its own                               *)
(***************************************************************************)
\* the poll loop is not running
LoopIdle ==
    /\ kind = "image" /\ noSave = FALSE /\ outputPath = <<>> /\ pollInterval = 2
    /\ pc = "idle" /\ ctxDone = FALSE /\ pollTickerC = 0 /\ spinnerTickerC = 0
    /\ spinnerIndex = 0 /\ currentStatus = "" /\ stdout = <<>> /\ result = Running
    /\ fetchesIssued = 0 /\ inflight = 0 /\ fetchCtxDone = FALSE /\ fetchLog = <<>>
    /\ fs = InitialFs /\ downloads = 0

loopVars == <<kind, noSave, outputPath, pollInterval, pc, ctxDone, pollTickerC,
              spinnerTickerC, spinnerIndex, currentStatus, stdout, result,
              fetchesIssued, inflight, fetchCtxDone, fetchLog, fs, downloads>>

\* the poll loop, the configuration store and the speech commands are idle
PollIdle == LoopIdle /\ StoreIdle /\ SpeechIdle

pollVars == <<loopVars, storeVars, speechVars>>

Returned(v) == [done |-> TRUE, value |-> v]

ExtWav == <<".","w","a","v">>

EnsureWavExt(path) ==
    IF ~HasSuffix(ToLower(path), ExtWav) THEN path \o ExtWav ELSE path

\* base64.StdEncoding.EncodeToString of one group of up to three bytes
EncodeGroup(g) ==
    LET b2 == IF Len(g) >= 2 THEN g[2] ELSE 0
        b3 == IF Len(g) >= 3 THEN g[3] ELSE 0
        v  == g[1] * 65536 + b2 * 256 + b3
        c1 == B64Chars[(v \div 262144) + 1]
        c2 == B64Chars[((v \div 4096) % 64) + 1]
        c3 == B64Chars[((v \div 64) % 64) + 1]
        c4 == B64Chars[(v % 64) + 1]
    IN  IF Len(g) = 1 THEN <<c1, c2, "=", "=">>
        ELSE IF Len(g) = 2 THEN <<c1, c2, c3, "=">>
        ELSE <<c1, c2, c3, c4>>

RECURSIVE EncodeToString(_)
EncodeToString(b) ==
    IF b = <<>> THEN <<>>
    ELSE IF Len(b) <= 3 THEN EncodeGroup(b)
    ELSE EncodeGroup(SubSeq(b, 1, 3)) \o EncodeToString(SubSeq(b, 4, Len(b)))

\* the save steps of runTTS: no data-URL prefix is looked for
SaveAudio(audioData, path, env, f) ==
    LET out     == EnsureWavExt(IF path = <<>>
                                THEN Join(DefaultSavePath,
                                          <<"s","p","e","e","c","h","_">> \o Timestamp \o ExtWav)
                                ELSE path)
        decoded == DecodeString(audioData)
        dir     == Dir(out)
    IN  IF ~decoded.ok
        THEN [result |-> Failure("decode", <<"failed to decode audio data: ", "illegal base64 data">>),
              gets |-> 0, fs |-> f]
        ELSE IF ~env.mkdirOk
        THEN [result |-> Failure("io", <<"failed to create directory: ", "permission denied">>),
              gets |-> 0, fs |-> f]
        ELSE IF ~env.writeOk
        THEN [result |-> Failure("io", <<"failed to save audio: ", "permission denied">>),
              gets |-> 0, fs |-> MkdirAll(f, dir)]
        ELSE [result |-> Success, gets |-> 0,
              fs |-> WriteFile(MkdirAll(f, dir), out, decoded.bytes)]

Bytes == {0, 65, 255}

MaxBytes == 3

ByteSeqs == UNION {[1..n -> Bytes] : n \in 0..MaxBytes}

Chars(str) ==
    CASE str = "image/jpeg" -> <<"i","m","a","g","e","/","j","p","e","g">>
      [] str = "image/png" -> <<"i","m","a","g","e","/","p","n","g">>
      [] str = "audio/wav" -> <<"a","u","d","i","o","/","w","a","v">>
      [] str = "application/octet-stream" ->
             <<"a","p","p","l","i","c","a","t","i","o","n","/",
               "o","c","t","e","t","-","s","t","r","e","a","m">>

MediaTypes == {"image/jpeg", "image/png", "audio/wav", "application/octet-stream"}

\* "data:%s;base64,%s"
DataURL(contentType, encoded) ==
    <<"d","a","t","a",":">> \o Chars(contentType) \o <<";","b","a","s","e","6","4",",">> \o encoded

\* the inline payloads a server can send for the bytes b
InlinePayloads(b) ==
    {[bytes |-> b, mediaType |-> "", data |-> EncodeToString(b)]}
        \cup {[bytes |-> b, mediaType |-> mt, data |-> DataURL(mt, EncodeToString(b))] :
                 mt \in MediaTypes}

MaterializeCalls ==
    {[fn |-> "materialize", kind |-> k, payload |-> pl, path |-> path] :
        k \in {"image", "avatar", "speech"},
        pl \in UNION {InlinePayloads(b) : b \in ByteSeqs},
        path \in OutputPaths}

\* the extension rule of a job kind's result file
EnsureExt(k, path) ==
    CASE k \in {"image", "avatar"} -> EnsureJpgExt(path)
      [] k \in {"talking", "motion"} -> EnsureMp4Ext(path)
      [] k = "speech" -> EnsureWavExt(path)

\* the extensions the rule of a job kind accepts
AcceptedExts(k) ==
    CASE k \in {"image", "avatar"} -> {ExtJpg, ExtJpeg}
      [] k \in {"talking", "motion"} -> {ExtMp4}
      [] k = "speech" -> {ExtWav}

PathStems == {<<>>, <<"a">>, <<"d","/","a">>}

PathEnds == {<<>>, <<".">>, <<".","j","p">>, ExtJpg, ExtJpeg, ExtMp4, ExtWav,
             <<".","J","P","G">>, <<".","J","p","e","g">>, <<".","M","P","4">>,
             <<".","W","a","v">>, ExtJpg \o ExtMp4, ExtWav \o ExtJpeg}

EnsureExtCalls ==
    {[fn |-> "ensureExt", kind |-> k, path |-> stem \o end] :
        k \in {"image", "avatar", "talking", "motion", "speech"},
        stem \in PathStems, end \in PathEnds}

\* the rule applied to the path, and then once more to what it produced
EnsureExtStep ==
    /\ call.fn = "ensureExt"
    /\ \/ /\ ~ret.done
          /\ ret' = Returned(<<EnsureExt(call.kind, call.path)>>)
       \/ /\ ret.done /\ Len(ret.value) = 1
          /\ ret' = Returned(Append(ret.value, EnsureExt(call.kind, ret.value[1])))
    /\ UNCHANGED <<pollVars, call>>

MatInit ==
    /\ PollIdle
    /\ call \in MaterializeCalls \cup EnsureExtCalls
    /\ ret = NoRet

\* saveImageFromBase64 (image, avatar) or the save steps of runTTS (speech)
\* on an empty file system, every call of the operating system succeeding
Materialize ==
    /\ call.fn = "materialize"
    /\ ~ret.done
    /\ ret' = Returned(IF call.kind = "speech"
                       THEN SaveAudio(call.payload.data, call.path, AllOk, InitialFs)
                       ELSE SaveImage(call.kind, call.payload.data, call.path, AllOk, InitialFs))
    /\ UNCHANGED <<pollVars, call>>

MatNext ==
    \/ Materialize
    \/ EnsureExtStep

MatSpec == MatInit /\ [][MatNext]_vars

\* C13: materializing base64(b), bare or behind any data-URL prefix, writes
\* one file whose content is b.
C13_RoundTrip ==
    (call.fn = "materialize" /\ ret.done)
        => /\ ret.value.result = Success
           /\ \E file \in ret.value.fs.files : file.content = call.payload.bytes
           /\ Cardinality(ret.value.fs.files) = 1

\* C14: the extension rule applied to its own result changes nothing, and a
\* path that ends in an extension the job kind accepts is left as it is.
C14_EnsureExtIdempotent ==
    (call.fn = "ensureExt" /\ ret.done)
        => /\ Len(ret.value) = 2 => ret.value[2] = ret.value[1]
           /\ (\E e \in AcceptedExts(call.kind) : HasSuffix(call.path, e))
                 => ret.value[1] = call.path
           /\ \E e \in AcceptedExts(call.kind) : HasSuffix(ToLower(ret.value[1]), e)

\* C14 witness: the rule has been applied twice to an image path that it had
\* to extend the first time
C14_Witness ==
    /\ call.fn = "ensureExt" /\ call.kind = "image" /\ ret.done
    /\ Len(ret.value) = 2 /\ ret.value[1] = call.path \o ExtJpg

(***************************************************************************)
(* The commands up to their first network call: input validation          *)
(***************************************************************************)
\* A text of a flag: the number of its characters and the number of bytes of
\* its UTF-8 encoding.  len(s) in the code counts bytes.
Text(chars, width) == [chars |-> chars, bytes |-> chars * width]

ByteLen(t) == t.bytes

MaxInputImages == 5

MaxAvatarPromptLen == 1000

MaxMotionPromptLen == 512

MinNameLen == 3

MaxNameLen == 64

MinAudioFiles == 6

MaxImageFlags == 3

PromptTexts ==
    {Text(n, w) : n \in {0, 1, MaxMotionPromptLen, MaxMotionPromptLen + 1,
                         MaxAvatarPromptLen, MaxAvatarPromptLen + 1},
                  w \in {1, 2}}

NameTexts ==
    {Text(n, w) : n \in {0, 1, MinNameLen - 1, MinNameLen, MaxNameLen, MaxNameLen + 1},
                  w \in {1, 2}}

\* the command has issued its start request and goes on to the poll loop
Started == [kind |-> "started", msg |-> <<>>]

ValidationError(m) == Failure("validation", <<m>>)

\* parseInputImages, every file readable and every label well formed: the
\* number of input images, or the error
ParseInputImages(images, labeledImages) ==
    IF images = 0 /\ labeledImages = 0 THEN [err |-> FALSE, count |-> 0]
    ELSE IF images + labeledImages > MaxInputImages
    THEN [err |-> TRUE, count |-> images + labeledImages]
    ELSE [err |-> FALSE, count |-> images + labeledImages]

\* image generate, up to the start request
RunImageGenerate(c) ==
    IF ByteLen(c.prompt) = 0
    THEN [result |-> ValidationError("prompt is required. Use --prompt flag"), net |-> <<>>]
    ELSE IF ParseInputImages(c.images, c.labeledImages).err
    THEN [result |-> ValidationError("failed to parse input images: maximum 5 input images are supported"),
          net |-> <<>>]
    ELSE IF c.sync
    THEN [result |-> Started, net |-> <<"GenerateImageSync">>]
    ELSE [result |-> Started, net |-> <<"GenerateImage">>]

\* avatar generate, up to the start request
RunAvatarGenerate(c) ==
    IF ByteLen(c.prompt) = 0
    THEN [result |-> ValidationError("prompt is required. Use --prompt flag"), net |-> <<>>]
    ELSE IF ByteLen(c.prompt) > MaxAvatarPromptLen
    THEN [result |-> ValidationError("prompt is too long (max 1000 characters)"), net |-> <<>>]
    ELSE [result |-> Started, net |-> <<"GenerateAvatar">>]

\* video generate --model avatar-motion, up to the start request
RunGenerateAvatarMotion(c) ==
    IF ~c.audio
    THEN [result |-> ValidationError("audio path is required. Use --audio flag"), net |-> <<>>]
    ELSE IF ~c.image
    THEN [result |-> ValidationError("image path is required. Use --image flag"), net |-> <<>>]
    ELSE IF ByteLen(c.positivePrompt) = 0
    THEN [result |-> ValidationError("positive prompt is required. Use --positive-prompt flag"),
          net |-> <<>>]
    ELSE IF ByteLen(c.positivePrompt) > MaxMotionPromptLen
    THEN [result |-> ValidationError("positive prompt must be 512 characters or less"), net |-> <<>>]
    ELSE IF ByteLen(c.negativePrompt) > MaxMotionPromptLen
    THEN [result |-> ValidationError("negative prompt must be 512 characters or less"), net |-> <<>>]
    ELSE IF ~c.audioReadable
    THEN [result |-> Failure("io", <<"failed to read audio file: ", "no such file or directory">>),
          net |-> <<>>]
    ELSE IF ~c.imageReadable
    THEN [result |-> Failure("io", <<"failed to read image file: ", "no such file or directory">>),
          net |-> <<>>]
    ELSE [result |-> Started, net |-> <<"GenerateAvatarMotion">>]

\* voice clone, up to the start request
RunCloneVoice(c) ==
    IF ByteLen(c.name) < MinNameLen \/ ByteLen(c.name) > MaxNameLen
    THEN [result |-> ValidationError("name must be between 3 and 64 characters"), net |-> <<>>]
    ELSE IF ~c.audioDirExists
    THEN [result |-> ValidationError("audio directory does not exist"), net |-> <<>>]
    ELSE IF ~c.annotationsExist
    THEN [result |-> ValidationError("annotations file does not exist"), net |-> <<>>]
    ELSE IF c.wavFiles < MinAudioFiles
    THEN [result |-> ValidationError("at least 6 .wav files are required for voice cloning"),
          net |-> <<>>]
    ELSE [result |-> Started, net |-> <<"CloneVoice">>]

ValidationCalls ==
    {[fn |-> "image generate", prompt |-> pr, images |-> i, labeledImages |-> l, sync |-> sy] :
        pr \in {t \in PromptTexts : t.chars <= 1}, i \in 0..MaxImageFlags,
        l \in 0..MaxImageFlags, sy \in BOOLEAN}
    \cup {[fn |-> "avatar generate", prompt |-> pr] : pr \in PromptTexts}
    \cup {[fn |-> "avatar motion", audio |-> a, image |-> im, positivePrompt |-> pp,
           negativePrompt |-> np, audioReadable |-> ar, imageReadable |-> ir] :
             a \in BOOLEAN, im \in BOOLEAN, ar \in BOOLEAN, ir \in BOOLEAN,
             pp \in {t \in PromptTexts : t.chars <= MaxMotionPromptLen + 1},
             np \in {t \in PromptTexts : t.chars \in {0, MaxMotionPromptLen + 1}}}
    \cup {[fn |-> "voice clone", name |-> nm, audioDirExists |-> d, annotationsExist |-> an,
           wavFiles |-> w] :
             nm \in NameTexts, d \in BOOLEAN, an \in BOOLEAN,
             w \in {0, MinAudioFiles - 1, MinAudioFiles}}

ValInit ==
    /\ PollIdle
    /\ call \in ValidationCalls
    /\ ret = NoRet

ImageGenerate ==
    /\ call.fn = "image generate" /\ ~ret.done
    /\ ret' = Returned(RunImageGenerate(call))
    /\ UNCHANGED <<pollVars, call>>

AvatarGenerate ==
    /\ call.fn = "avatar generate" /\ ~ret.done
    /\ ret' = Returned(RunAvatarGenerate(call))
    /\ UNCHANGED <<pollVars, call>>

GenerateAvatarMotion ==
    /\ call.fn = "avatar motion" /\ ~ret.done
    /\ ret' = Returned(RunGenerateAvatarMotion(call))
    /\ UNCHANGED <<pollVars, call>>

CloneVoice ==
    /\ call.fn = "voice clone" /\ ~ret.done
    /\ ret' = Returned(RunCloneVoice(call))
    /\ UNCHANGED <<pollVars, call>>

ValNext ==
    \/ ImageGenerate
    \/ AvatarGenerate
    \/ GenerateAvatarMotion
    \/ CloneVoice

ValSpec == ValInit /\ [][ValNext]_vars

\* the input breaks one of the documented constraints, counted in characters
ViolatesConstraint(c) ==
    CASE c.fn = "image generate" ->
            c.prompt.chars = 0 \/ c.images + c.labeledImages > 5
      [] c.fn = "avatar generate" ->
            c.prompt.chars = 0 \/ c.prompt.chars > 1000
      [] c.fn = "avatar motion" ->
            c.positivePrompt.chars = 0 \/ c.positivePrompt.chars > 512
                \/ c.negativePrompt.chars > 512
      [] c.fn = "voice clone" ->
            c.name.chars < 3 \/ c.name.chars > 64 \/ c.wavFiles < 6
      [] OTHER -> FALSE

\* C15: a command whose input breaks a documented constraint returns a
\* validation error without having issued any network call.
C15_ValidationBeforeNetwork ==
    (ret.done /\ ViolatesConstraint(call))
        => (ret.value.result.kind = "validation" /\ ret.value.net = <<>>)


(***************************************************************************)
(* Configuration: flags, environment, configuration file, defaults         *)
(***************************************************************************)
DefaultAPIURL == "https://mirako.co"

\* A setting of the command line, of the environment or of the file: Nil
\* when the flag is not given, the variable not set, the key absent.
\* The configuration library takes a key from the environment only when the
\* key is known from the file or from a default, and a value stored with Set
\* comes before the environment.
Load(env, file) ==
    IF ~file.exists
    THEN \* first run: Save stores the built-in values with viper.Set
         [APIToken |-> "", APIURL |-> DefaultAPIURL]
    ELSE [APIToken |-> IF file.api_token = Nil THEN ""
                       ELSE IF env.MIRAKO_API_TOKEN # Nil THEN env.MIRAKO_API_TOKEN
                       ELSE file.api_token,
          APIURL |-> IF env.MIRAKO_API_URL # Nil THEN env.MIRAKO_API_URL
                     ELSE IF file.api_url # Nil THEN file.api_url
                     ELSE DefaultAPIURL]

\* util.GetConfig: Load, then the flags that were given
GetConfig(flags, env, file) ==
    LET cfg == Load(env, file)
    IN  [APIToken |-> IF flags.api_token # Nil THEN flags.api_token ELSE cfg.APIToken,
         APIURL |-> IF flags.api_url # Nil THEN flags.api_url ELSE cfg.APIURL]

IsAuthenticated(cfg) == cfg.APIToken # ""

\* client.New and the first request of the command: the key and base URL of
\* the request, or no request when the client is refused
FirstRequest(cfg) ==
    IF ~IsAuthenticated(cfg)
    THEN [issued |-> FALSE, token |-> "", url |-> ""]
    ELSE [issued |-> TRUE, token |-> cfg.APIToken, url |-> cfg.APIURL]

\* image generate builds its configuration with util.GetConfig
RunImageConfig(c) == FirstRequest(GetConfig(c.flags, c.env, c.file))

\* speech stt and speech tts call config.Load themselves
RunSpeechConfig(c) == FirstRequest(Load(c.env, c.file))

ConfigFiles ==
    {[exists |-> FALSE, api_token |-> Nil, api_url |-> Nil]}
        \cup {[exists |-> TRUE, api_token |-> t, api_url |-> u] :
                 t \in {Nil, "", "file-token"}, u \in {Nil, "file-url"}}

ConfigCalls ==
    {[fn |-> f,
      flags |-> [api_token |-> ft, api_url |-> fu],
      env |-> [MIRAKO_API_TOKEN |-> et, MIRAKO_API_URL |-> eu],
      file |-> file] :
        f \in {"image generate", "speech stt"},
        ft \in {Nil, "cli-token"}, fu \in {Nil, "cli-url"},
        et \in {Nil, "env-token"}, eu \in {Nil, "env-url"},
        file \in ConfigFiles}

CfgInit ==
    /\ PollIdle
    /\ call \in ConfigCalls
    /\ ret = NoRet

ImageFirstRequest ==
    /\ call.fn = "image generate" /\ ~ret.done
    /\ ret' = Returned(RunImageConfig(call))
    /\ UNCHANGED <<pollVars, call>>

SpeechFirstRequest ==
    /\ call.fn = "speech stt" /\ ~ret.done
    /\ ret' = Returned(RunSpeechConfig(call))
    /\ UNCHANGED <<pollVars, call>>

CfgNext ==
    \/ ImageFirstRequest
    \/ SpeechFirstRequest

CfgSpec == CfgInit /\ [][CfgNext]_vars

\* the value the documented precedence selects
ByPrecedence(flag, envValue, fileValue, default) ==
    IF flag # Nil THEN flag
    ELSE IF envValue # Nil THEN envValue
    ELSE IF fileValue # Nil THEN fileValue
    ELSE default

\* C18: the token and the URL of a command's request are those of the flags
\* when given, else of the environment, else of the file, else the defaults.
C18_ConfigPrecedence ==
    (ret.done /\ call.fn \in {"image generate", "speech stt"} /\ ret.value.issued)
        => /\ ret.value.token = ByPrecedence(call.flags.api_token, call.env.MIRAKO_API_TOKEN,
                                             call.file.api_token, "")
           /\ ret.value.url = ByPrecedence(call.flags.api_url, call.env.MIRAKO_API_URL,
                                           call.file.api_url, DefaultAPIURL)

(***************************************************************************)
(* interactive start                                                       *)
(***************************************************************************)
FlagNames == {"avatar", "model", "llm-model", "voice", "instruction", "tools",
              "idle-timeout"}

StringFlags == FlagNames \ {"idle-timeout"}

\* the default of --idle-timeout
DefaultIdleTimeout == 15

DefaultInteractiveModel == "metis-2.5"

DefaultLLMModel == "gemini-2.0-flash"

DefaultInstruction == "You are a helpful AI assistant."

\* the value the caller gives to a string flag
CliValue(name) ==
    CASE name = "avatar" -> "cli-avatar"
      [] name = "model" -> "cli-model"
      [] name = "llm-model" -> "cli-llm"
      [] name = "voice" -> "cli-voice"
      [] name = "instruction" -> "cli-instruction"
      [] name = "tools" -> <<"[", "\"", "c", "\"", "]">>

\* cmd.Flags().GetString: the flag's value, its default "" when not given
GetString(c, name) == IF name \in c.given THEN CliValue(name) ELSE ""

\* cmd.Flags().GetString("tools"): the value is kept as its characters, the
\* default "" being the empty sequence
GetTools(c) == IF "tools" \in c.given THEN CliValue("tools") ELSE <<>>

\* cmd.Flags().GetInt64("idle-timeout")
GetIdleTimeout(c) == IF "idle-timeout" \in c.given THEN c.idle ELSE DefaultIdleTimeout

\* cmd.Flags().Changed
Changed(c, name) == name \in c.given

NoProfile ==
    [AvatarID |-> "", Model |-> "", LLMModel |-> "", VoiceProfileID |-> "",
     Instruction |-> "", Tools |-> <<>>, IdleTimeout |-> 0]

\* the profile written on the first run
FirstRunProfile == [NoProfile EXCEPT !.Model = "metis-2.5", !.IdleTimeout = 15]

FullProfile ==
    [AvatarID |-> "p-avatar", Model |-> "p-model", LLMModel |-> "p-llm",
     VoiceProfileID |-> "p-voice", Instruction |-> "p-instruction",
     Tools |-> <<"[", "\"", "p", "\"", "]">>, IdleTimeout |-> 30]

ProfileValues ==
    {NoProfile, FirstRunProfile, FullProfile, [FullProfile EXCEPT !.VoiceProfileID = ""]}

\* cfg.InteractiveProfiles; the configuration library lower-cases the keys
ProfileMaps ==
    UNION {[names -> ProfileValues] : names \in SUBSET {"default", "work"}}

\* the control characters U+0000..U+001F in order; those that a string of
\* this module cannot hold directly are written by their code point
ControlChars ==
    <<"U+0000", "U+0001", "U+0002", "U+0003", "U+0004", "U+0005", "U+0006", "U+0007",
      "U+0008", "\t", "\n", "U+000B", "\f", "\r", "U+000E", "U+000F",
      "U+0010", "U+0011", "U+0012", "U+0013", "U+0014", "U+0015", "U+0016", "U+0017",
      "U+0018", "U+0019", "U+001A", "U+001B", "U+001C", "U+001D", "U+001E", "U+001F">>

HexDigits == <<"0","1","2","3","4","5","6","7","8","9","a","b","c","d","e","f">>

IsControl(c) == \E i \in 1..Len(ControlChars) : ControlChars[i] = c

\* the code point of a control character
ControlCode(c) == (CHOOSE i \in 1..Len(ControlChars) : ControlChars[i] = c) - 1

\* the six characters \uXXXX for a code point given by its four hex digits
UEscape(h1, h2, h3, h4) == <<"\\", "u", h1, h2, h3, h4>>

\* encoding/json (Go 1.24): how a character of a Go string is written inside
\* a JSON string.  Quote, backslash and the control characters with a short
\* form get a backslash; the other control characters, the HTML characters,
\* U+2028 and U+2029 are written as \uXXXX, a byte that is no valid UTF-8
\* ("invalid-utf8") as \ufffd; every other character is copied
EscapeChar(c) ==
    CASE c = "\"" -> <<"\\", "\"">>
      [] c = "\\" -> <<"\\", "\\">>
      [] c = "U+0008" -> <<"\\", "b">>
      [] c = "\f" -> <<"\\", "f">>
      [] c = "\n" -> <<"\\", "n">>
      [] c = "\r" -> <<"\\", "r">>
      [] c = "\t" -> <<"\\", "t">>
      [] c = "<" -> UEscape("0", "0", "3", "c")
      [] c = ">" -> UEscape("0", "0", "3", "e")
      [] c = "&" -> UEscape("0", "0", "2", "6")
      [] c = "U+2028" -> UEscape("2", "0", "2", "8")
      [] c = "U+2029" -> UEscape("2", "0", "2", "9")
      [] c = "invalid-utf8" -> UEscape("f", "f", "f", "d")
      [] OTHER ->
            IF IsControl(c)
            THEN UEscape("0", "0", HexDigits[(ControlCode(c) \div 16) + 1],
                         HexDigits[(ControlCode(c) % 16) + 1])
            ELSE <<c>>

RECURSIVE EscapeString(_)
EscapeString(s) ==
    IF s = <<>> THEN <<>> ELSE EscapeChar(Head(s)) \o EscapeString(Tail(s))

\* json.Marshal(profile.Tools): Tools is a Go string, so the result is that
\* string as a JSON string, between quotes and escaped
MarshalTools(tools) == <<"\"">> \o EscapeString(tools) \o <<"\"">>

\* strings.EqualFold(name, "default") for the lower-case keys of the map
EqualFoldDefault(name) == name = "default"

StartError(m) == [isNil |-> FALSE, msg |-> m, panic |-> FALSE]

NilError == [isNil |-> TRUE, msg |-> "", panic |-> FALSE]

\* runStart did not return: *resp.Data.Session.SessionId of a response
\* that carries no session id
StartPanic ==
    [isNil |-> FALSE, panic |-> TRUE,
     msg |-> "panic: runtime error: invalid memory address or nil pointer dereference"]

\* what the server answers to the start-session request
StartResponses == {"ok", "no session id", "no data", "api error", "transport error"}

\* the exit status of a Go process that ends in a panic
PanicExit == 2

\* main: the process's exit status for the error Execute returned
Main(err) == IF err.panic THEN PanicExit ELSE IF ~err.isNil THEN 1 ELSE 0

\* runStart: the returned error, the start-session requests issued, and
\* whether a session was started
RunStart(c, resp, loaded) ==
    LET cfg      == c.cfg
        profiles == cfg.InteractiveProfiles
        named    == Len(c.args) > 0
        found    == IF named THEN c.args[1] \in DOMAIN profiles
                    ELSE \E n \in DOMAIN profiles : EqualFoldDefault(n)
        profile  == IF ~found THEN NoProfile
                    ELSE IF named THEN profiles[c.args[1]]
                    ELSE profiles[CHOOSE n \in DOMAIN profiles : EqualFoldDefault(n)]
        avatarID == IF GetString(c, "avatar") = "" THEN profile.AvatarID
                    ELSE GetString(c, "avatar")
        model1   == IF GetString(c, "model") = "" THEN profile.Model
                    ELSE GetString(c, "model")
        model    == IF model1 = "" THEN DefaultInteractiveModel ELSE model1
        llm1     == IF GetString(c, "llm-model") = "" THEN profile.LLMModel
                    ELSE GetString(c, "llm-model")
        llmModel == IF llm1 = "" THEN DefaultLLMModel ELSE llm1
        voice1   == IF GetString(c, "voice") = "" THEN profile.VoiceProfileID
                    ELSE GetString(c, "voice")
        voiceID  == IF voice1 = "" THEN cfg.DefaultVoice ELSE voice1
        instr1   == IF GetString(c, "instruction") = "" THEN profile.Instruction
                    ELSE GetString(c, "instruction")
        instruction == IF instr1 = "" THEN DefaultInstruction ELSE instr1
        toolsJSON == IF GetTools(c) = <<>> /\ Len(profile.Tools) > 0
                     THEN MarshalTools(profile.Tools)
                     ELSE GetTools(c)
        idleTimeout == IF GetIdleTimeout(c) = DefaultIdleTimeout /\ profile.IdleTimeout # 0
                       THEN profile.IdleTimeout
                       ELSE GetIdleTimeout(c)
        body == [AvatarId |-> avatarID, Model |-> model, LlmModel |-> llmModel,
                 VoiceProfileId |-> voiceID, Instruction |-> instruction,
                 IdleTimeout |-> IF idleTimeout # DefaultIdleTimeout \/ Changed(c, "idle-timeout")
                                 THEN idleTimeout ELSE Nil,
                 Tools |-> IF toolsJSON # <<>> THEN toolsJSON ELSE Nil]
        none == <<>>
    IN  IF ~loaded
        THEN \* util.GetConfig failed
             [err |-> StartError("failed to load config"), requests |-> none,
              started |-> FALSE]
        ELSE IF named /\ ~found
        THEN [err |-> StartError("profile not found in config"), requests |-> none,
              started |-> FALSE]
        ELSE IF ~named /\ ~found
        THEN \* prints "No default profile found in config" and returns nil
             [err |-> NilError, requests |-> none, started |-> FALSE]
        ELSE IF avatarID = ""
        THEN [err |-> StartError("Could not find avatar ID in the profile"),
              requests |-> none, started |-> FALSE]
        ELSE IF voiceID = ""
        THEN [err |-> StartError("Could not find voice profile ID in the profile"),
              requests |-> none, started |-> FALSE]
        ELSE IF cfg.APIToken = ""
        THEN [err |-> StartError("failed to create client: API token is required"),
              requests |-> none, started |-> FALSE]
        ELSE IF resp = "api error"
        THEN [err |-> StartError("API error"), requests |-> <<body>>, started |-> FALSE]
        ELSE IF resp = "transport error"
        THEN [err |-> StartError("failed to start session: connection refused"),
              requests |-> <<body>>, started |-> FALSE]
        ELSE IF resp = "no data"
        THEN [err |-> StartError("unexpected response from server"),
              requests |-> <<body>>, started |-> FALSE]
        ELSE IF resp = "no session id"
        THEN \* "Session started successfully!" is printed, then the panic
             [err |-> StartPanic, requests |-> <<body>>, started |-> TRUE]
        ELSE [err |-> NilError, requests |-> <<body>>, started |-> TRUE]

StartCalls ==
    {[fn |-> "interactive start", args |-> a, given |-> g, idle |-> i,
      cfg |-> [APIToken |-> tok, DefaultVoice |-> dv, InteractiveProfiles |-> pm]] :
        a \in {<<>>, <<"work">>}, g \in SUBSET FlagNames, i \in {15, 20},
        tok \in {"", "token"}, dv \in {"", "cfg-voice"}, pm \in ProfileMaps}

StartInit ==
    /\ PollIdle
    /\ call \in {c \in StartCalls : "idle-timeout" \notin c.given => c.idle = DefaultIdleTimeout}
    /\ ret = NoRet

\* the whole run of `mirako interactive start`, and the exit of the process
InteractiveStart ==
    /\ call.fn = "interactive start" /\ ~ret.done
    /\ \E resp \in StartResponses, loaded \in BOOLEAN :
          LET r == RunStart(call, resp, loaded)
          IN  ret' = Returned([err |-> r.err, requests |-> r.requests,
                               started |-> r.started, exit |-> Main(r.err)])
    /\ UNCHANGED <<pollVars, call>>

StartNext == InteractiveStart

StartSpec == StartInit /\ [][StartNext]_vars

\* C16: the process exits with status 0 when the command succeeded and with
\* status 1 on every error condition, a missing profile among them.
C16_ExitStatus ==
    (call.fn = "interactive start" /\ ret.done)
        => /\ ret.value.exit \in {0, 1}
           /\ ret.value.exit = 0 <=> ret.value.started

\* the field of the start-session request that a flag decides
BodyField(body, name) ==
    CASE name = "avatar" -> body.AvatarId
      [] name = "model" -> body.Model
      [] name = "llm-model" -> body.LlmModel
      [] name = "voice" -> body.VoiceProfileId
      [] name = "instruction" -> body.Instruction
      [] name = "tools" -> body.Tools
      [] name = "idle-timeout" -> body.IdleTimeout

\* the value the caller gave to a flag
GivenValue(c, name) == IF name = "idle-timeout" THEN c.idle ELSE CliValue(name)

\* the run used a profile of the configuration
UsedProfile(c) ==
    IF Len(c.args) > 0 THEN c.args[1] \in DOMAIN c.cfg.InteractiveProfiles
    ELSE "default" \in DOMAIN c.cfg.InteractiveProfiles

\* C19: in a start with a profile, every flag given on the command line
\* decides its field of the start-session request, whatever the profile holds.
C19_FlagsOverrideProfile ==
    (call.fn = "interactive start" /\ ret.done /\ UsedProfile(call)
         /\ ret.value.requests # <<>>)
        => \A name \in call.given :
              BodyField(ret.value.requests[1], name) = GivenValue(call, name)

\* C20: started without a profile argument and with --avatar and --voice, an
\* authenticated command issues one start-session request with those values,
\* whether or not the configuration holds a default profile.
C20_FlagsOnlyStart ==
    (call.fn = "interactive start" /\ ret.done /\ call.args = <<>>
         /\ {"avatar", "voice"} \subseteq call.given /\ call.cfg.APIToken # "")
        => /\ Len(ret.value.requests) = 1
           /\ ret.value.requests[1].AvatarId = CliValue("avatar")
           /\ ret.value.requests[1].VoiceProfileId = CliValue("voice")

(***************************************************************************)
(* internal/errors: a response handed to HandleHTTPError, and the message  *)
(* the commands print for the error it returns                             *)
(***************************************************************************)
ResponseCodes ==
    {199, 200, 204, 299, 300, 301, 400, 401, 402, 403, 404, 422, 429, 500, 503}

ResponseBodies ==
    {NilBody, EmptyBody, TextBody, JSONBody(Nil), JSONBody(""),
     JSONBody("invalid prompt")}

ErrCalls ==
    {[fn |-> "HandleHTTPError", code |-> c, body |-> b] :
        c \in ResponseCodes, b \in ResponseBodies}

ErrInit == PollIdle /\ call \in ErrCalls /\ ret = NoRet

\* HandleHTTPError(resp, context), then GetUserFriendlyMessage of its error
HandleResponse ==
    /\ call.fn = "HandleHTTPError"
    /\ ~ret.done
    /\ LET err == HandleHTTPError(call.code, call.body)
       IN  ret' = Returned([err |-> err,
                            message |-> IF err = NoError THEN <<>>
                                        ELSE GetUserFriendlyMessage(err)])
    /\ UNCHANGED <<pollVars, call>>

ErrNext == HandleResponse

ErrSpec == ErrInit /\ [][ErrNext]_vars

\* the message of the status codes that have one of their own
StatusMessage(code) ==
    CASE code = 402 -> <<"Insufficient credits. Please upgrade your plan or purchase more credits at https://mirako.ai/billing">>
      [] code \in {401, 403} -> <<"Authentication failed. Please run 'mirako auth login' to authenticate">>
      [] code = 429 -> <<"Rate limit exceeded. Please wait a moment and try again">>
      [] code = 404 -> <<"Resource not found. Please check the ID and try again">>
      [] OTHER -> <<>>

GenericMessage(code) == <<"API request failed with status ", ToString(code)>>

\* C21: HandleHTTPError returns no error for a 2xx response.  For any other
\* response the user-facing message is the one of the status code when the
\* code is 402, 401/403, 429 or 404; otherwise it is the detail of a JSON body
\* that carries one; otherwise it is the generic message, and for an absent,
\* empty or non-JSON body the error carries no error model.
C21_MessageByStatusThenDetail ==
    (call.fn = "HandleHTTPError" /\ ret.done)
        => LET c == call.code
               b == call.body
               e == ret.value.err
               m == ret.value.message
           IN  IF c >= 200 /\ c < 300 THEN e = NoError
               ELSE /\ e.type = "api"
                    /\ e.StatusCode = c
                    /\ IF StatusMessage(c) # <<>> THEN m = StatusMessage(c)
                       ELSE IF b.kind = "json" /\ b.detail # Nil
                       THEN m = <<b.detail>>
                       ELSE m = GenericMessage(c)
                    /\ b.kind \in {"nil", "empty", "text"} => ~e.ErrorModel

\* C21 witness: a 401 response whose JSON body carries a detail got the
\* authentication message, not the detail.
C21_Witness ==
    /\ call.fn = "HandleHTTPError"
    /\ ret.done
    /\ call.code = 401
    /\ call.body = JSONBody("invalid prompt")
    /\ ret.value.message = StatusMessage(401)
    /\ ret.value.err.Detail = "invalid prompt"

(***************************************************************************)
(* internal/client: validation of the voice-clone input (annotation file   *)
(* and audio directory).  File contents and paths are character sequences. *)
(***************************************************************************)
MaxLines == 3

\* unicode.IsSpace for the characters the inputs use
IsSpace(c) == c \in {" ", "\t", "\n", "\r"}

\* strings.TrimSpace
TrimSpace(s) ==
    IF \A i \in 1..Len(s) : IsSpace(s[i]) THEN <<>>
    ELSE LET first == CHOOSE i \in 1..Len(s) :
                          ~IsSpace(s[i]) /\ \A j \in 1..(i-1) : IsSpace(s[j])
             last  == CHOOSE i \in 1..Len(s) :
                          ~IsSpace(s[i]) /\ \A j \in (i+1)..Len(s) : IsSpace(s[j])
         IN  SubSeq(s, first, last)

\* strings.Split for a one-character separator
RECURSIVE Split(_, _)
Split(s, sep) ==
    LET i == Index(s, sep)
    IN  IF i < 0 THEN <<s>>
        ELSE <<SubSeq(s, 1, i)>> \o Split(SubSeq(s, i + 2, Len(s)), sep)

\* filepath.Ext: the suffix from the last dot of the last path element
Ext(path) ==
    LET dot == LastIndex(path, ".")
    IN  IF dot >= 0 /\ dot > LastIndex(path, "/")
        THEN SubSeq(path, dot + 1, Len(path)) ELSE <<>>

\* filepath.Base of a path without trailing separators
Base(path) ==
    IF path = <<>> THEN <<".">>
    ELSE SubSeq(path, LastIndex(path, "/") + 2, Len(path))

ExtMp3 == <<".","m","p","3">>

IsAudioExt(ext) == ToLower(ext) = ExtWav \/ ToLower(ext) = ExtMp3

NoParseError == [msg |-> "", line |-> 0]

ParseError(msg, line) == [msg |-> msg, line |-> line]

\* the loop of parseAnnotationFile over lines[lineNum+1 ..], with the names
\* collected so far
RECURSIVE ParseLines(_, _, _)
ParseLines(lines, lineNum, audioFiles) ==
    IF lineNum >= Len(lines)
    THEN IF Len(audioFiles) = 0
         THEN [err |-> ParseError("no valid audio file entries found in annotation file", 0),
               files |-> <<>>]
         ELSE [err |-> NoParseError, files |-> audioFiles]
    ELSE LET line == TrimSpace(lines[lineNum + 1])
             parts == Split(line, "|")
             filename == TrimSpace(parts[1])
         IN  IF line = <<>> THEN ParseLines(lines, lineNum + 1, audioFiles)
             ELSE IF Len(parts) < 2
             THEN [err |-> ParseError("invalid format on line", lineNum + 1), files |-> <<>>]
             ELSE IF filename = <<>>
             THEN [err |-> ParseError("empty filename on line", lineNum + 1), files |-> <<>>]
             ELSE IF ~IsAudioExt(Ext(filename))
             THEN [err |-> ParseError("invalid audio file extension on line", lineNum + 1),
                   files |-> <<>>]
             ELSE ParseLines(lines, lineNum + 1, Append(audioFiles, filename))

\* a file on disk with this content, and a path that names no file
FileOf(content) == [exists |-> TRUE, content |-> content]
NoFile == [exists |-> FALSE, content |-> <<>>]

\* parseAnnotationFile of the file at the path
parseAnnotationFile(file) ==
    IF ~file.exists
    THEN [err |-> ParseError("failed to open annotation file", 0), files |-> <<>>]
    ELSE ParseLines(Split(TrimSpace(file.content), "\n"), 0, <<>>)

\* lines an annotation file is made of
AnnotationLines ==
    {<<>>, <<" ">>,
     <<"a",".","w","a","v","|","h","i">>,
     <<" ","b",".","M","P","3"," ","|"," ","y","o"," ">>,
     <<"c",".","w","a","v","|","x","|","y">>,
     <<"a",".","w","a","v"," ","h","i">>,
     <<"|","h","i">>,
     <<"a",".","t","x","t","|","h","i">>}

RECURSIVE JoinLines(_)
JoinLines(lines) ==
    IF Len(lines) = 0 THEN <<>>
    ELSE IF Len(lines) = 1 THEN lines[1]
    ELSE lines[1] \o <<"\n">> \o JoinLines(Tail(lines))

AnnotationFiles(n) ==
    {JoinLines(ls) : ls \in UNION {[1..k -> AnnotationLines] : k \in 0..n}}

\* a directory holding regular files at these paths relative to it, and a
\* path that names no directory
DirOf(paths) == [exists |-> TRUE, paths |-> paths]
NoDir == [exists |-> FALSE, paths |-> {}]

\* ScanAudioFiles of the directory at the path
ScanAudioFiles(dir) ==
    IF ~dir.exists THEN [err |-> TRUE, files |-> {}]
    ELSE [err |-> FALSE, files |-> {p \in dir.paths : IsAudioExt(Ext(p))}]

SeqToSet(s) == {s[i] : i \in 1..Len(s)}

\* ValidateVoiceCloneInput without the check for audio files that the
\* annotation file does not list
ValidateVoiceCloneInputMissingOnly(audioDir, annotationFile) ==
    LET parsed == parseAnnotationFile(annotationFile)
        scanned == ScanAudioFiles(audioDir)
        audioFileMap == {Base(p) : p \in scanned.files}
        missingFiles == {f \in SeqToSet(parsed.files) : f \notin audioFileMap}
    IN  IF parsed.err # NoParseError
        THEN [err |-> "invalid annotation file", files |-> {}]
        ELSE IF scanned.err
        THEN [err |-> "failed to scan audio directory", files |-> {}]
        ELSE IF missingFiles # {}
        THEN [err |-> "annotation.list references audio files that don't exist",
              files |-> missingFiles]
        ELSE [err |-> "", files |-> {}]

\* (*Client).ValidateVoiceCloneInput
ValidateVoiceCloneInput(audioDir, annotationFile) ==
    LET parsed == parseAnnotationFile(annotationFile)
        scanned == ScanAudioFiles(audioDir)
        audioFileMap == {Base(p) : p \in scanned.files}
        missingFiles == {f \in SeqToSet(parsed.files) : f \notin audioFileMap}
        extraFiles == {b \in audioFileMap : b \notin SeqToSet(parsed.files)}
    IN  IF parsed.err # NoParseError
        THEN [err |-> "invalid annotation file", files |-> {}]
        ELSE IF scanned.err
        THEN [err |-> "failed to scan audio directory", files |-> {}]
        ELSE IF missingFiles # {}
        THEN [err |-> "annotation.list references audio files that don't exist",
              files |-> missingFiles]
        ELSE IF extraFiles # {}
        THEN [err |-> "found audio files in directory that are not included in annotation.list",
              files |-> extraFiles]
        ELSE [err |-> "", files |-> {}]

AudioPaths ==
    {<<"a",".","w","a","v">>, <<"b",".","M","P","3">>, <<"c",".","w","a","v">>,
     <<"s","/","a",".","w","a","v">>, <<"n",".","t","x","t">>}

AudioDirs == {NoDir} \cup {DirOf(ps) : ps \in SUBSET AudioPaths}

VcCalls ==
    {[fn |-> "parseAnnotationFile", file |-> f] :
        f \in {NoFile} \cup {FileOf(c) : c \in AnnotationFiles(MaxLines)}}
    \cup {[fn |-> "ValidateVoiceCloneInput", audioDir |-> d, file |-> f] :
            d \in AudioDirs,
            f \in {NoFile} \cup {FileOf(c) : c \in AnnotationFiles(MaxLines - 1)}}

VcInit == PollIdle /\ call \in VcCalls /\ ret = NoRet

ParseAnnotation ==
    /\ call.fn = "parseAnnotationFile"
    /\ ~ret.done
    /\ ret' = Returned(parseAnnotationFile(call.file))
    /\ UNCHANGED <<pollVars, call>>

ValidateInput ==
    /\ call.fn = "ValidateVoiceCloneInput"
    /\ ~ret.done
    /\ ret' = Returned(ValidateVoiceCloneInput(call.audioDir, call.file))
    /\ UNCHANGED <<pollVars, call>>

VcNext == ParseAnnotation \/ ValidateInput

VcSpec == VcInit /\ [][VcNext]_vars

\* the lines of a file as an editor numbers them
FileLines(content) == Split(content, "\n")

IsBlank(line) == \A i \in 1..Len(line) : IsSpace(line[i])

\* the name before the first separator of a line
ListedName(line) == TrimSpace(Split(TrimSpace(line), "|")[1])

\* a line of the form filename|text whose filename ends in .wav or .mp3
IsEntry(line) ==
    /\ Index(line, "|") >= 0
    /\ IsAudioExt(Ext(ListedName(line)))

RECURSIVE EntryNames(_)
EntryNames(lines) ==
    IF Len(lines) = 0 THEN <<>>
    ELSE IF IsBlank(lines[1]) THEN EntryNames(Tail(lines))
    ELSE <<ListedName(lines[1])>> \o EntryNames(Tail(lines))

Offending(lines) == {i \in 1..Len(lines) : ~IsBlank(lines[i]) /\ ~IsEntry(lines[i])}

FirstOffending(lines) ==
    CHOOSE i \in Offending(lines) : \A j \in Offending(lines) : i <= j

\* C22: parseAnnotationFile returns the filenames of all non-blank lines, in
\* file order, when every non-blank line is a filename|text entry with a .wav
\* or .mp3 filename; when some non-blank line is not, it fails with an error
\* naming the 1-based number of the first such line of the file; a file with
\* no entries fails.
C22_ParseAnnotation ==
    (call.fn = "parseAnnotationFile" /\ ret.done /\ call.file.exists)
        => LET lines == FileLines(call.file.content)
               r == ret.value
           IN  IF Offending(lines) # {}
               THEN r.err # NoParseError /\ r.err.line = FirstOffending(lines)
               ELSE IF EntryNames(lines) = <<>>
               THEN r.err # NoParseError
               ELSE r.err = NoParseError /\ r.files = EntryNames(lines)

\* the base names of the .wav and .mp3 files under a directory
AudioBaseNames(dir) == {Base(p) : p \in {q \in dir.paths : IsAudioExt(Ext(q))}}

\* C23: ValidateVoiceCloneInput succeeds exactly when the annotation file
\* parses and the set of the filenames it lists equals the set of the base
\* names of the .wav and .mp3 files under the audio directory; when the file
\* parses and the directory can be read, a failure names files that are in
\* only one of the two sets.
C23_ValidateIffSetsEqual ==
    (call.fn = "ValidateVoiceCloneInput" /\ ret.done)
        => LET parsed == parseAnnotationFile(call.file)
               listed == SeqToSet(parsed.files)
               names == AudioBaseNames(call.audioDir)
               r == ret.value
           IN  /\ (r.err = "") <=> (parsed.err = NoParseError /\ listed = names)
               /\ (r.err # "" /\ parsed.err = NoParseError /\ call.audioDir.exists)
                     => /\ r.files # {}
                        /\ r.files \subseteq (listed \ names) \cup (names \ listed)

\* C23 witness: a directory that holds one file more than the annotation
\* file lists was refused, the error naming that file.
C23_Witness ==
    /\ call.fn = "ValidateVoiceCloneInput"
    /\ ret.done
    /\ call.file = FileOf(<<"a",".","w","a","v","|","h","i">>)
    /\ call.audioDir = DirOf({<<"a",".","w","a","v">>, <<"c",".","w","a","v">>})
    /\ ret.value.err # ""
    /\ ret.value.files = {<<"c",".","w","a","v">>}

(***************************************************************************)
(* internal/config: Save and Load through the configuration library        *)
(* (viper).  A layer of the library, the environment and the settings of   *)
(* the file are maps from configuration keys to values; a key that is not  *)
(* set is not in the domain.  Profile names are character sequences.       *)
(***************************************************************************)
MaxSaves == 2

\* viper.Set: the value is stored in the override layer
Set(v, key, value) == [v EXCEPT !.override = (key :> value) @@ @]

\* viper.SetDefault
SetDefault(v, key, value) == [v EXCEPT !.defaults = (key :> value) @@ @]

\* viper.AllKeys
AllKeys(v) == DOMAIN v.override \cup DOMAIN v.config \cup DOMAIN v.defaults

\* viper.Get with AutomaticEnv: override, environment, file, default
Get(v, e, key) ==
    IF key \in DOMAIN v.override THEN v.override[key]
    ELSE IF key \in DOMAIN e THEN e[key]
    ELSE IF key \in DOMAIN v.config THEN v.config[key]
    ELSE v.defaults[key]

\* viper.AllSettings: the value of every known key
AllSettings(v, e) == [key \in AllKeys(v) |-> Get(v, e, key)]

\* viper.WriteConfigAs: the file holds all settings
WriteConfigAs(v, e) == [exists |-> TRUE, settings |-> AllSettings(v, e)]

\* the keys of a nested map as ReadInConfig stores them: lower case
LowerNames(profiles) ==
    [n \in {ToLower(m) : m \in DOMAIN profiles} |->
        profiles[CHOOSE m \in DOMAIN profiles : ToLower(m) = n]]

\* viper.ReadInConfig: the file replaces the config layer
ReadInConfig(v, d) ==
    [v EXCEPT !.config =
        [key \in DOMAIN d.settings |->
            IF key = "interactive_profiles" THEN LowerNames(d.settings[key])
            ELSE d.settings[key]]]

\* viper.Unmarshal into cfg: every known key sets its field, decoded profiles
\* are put into the map the field holds
Unmarshal(cfg, v, e) ==
    LET field(key, held) == IF key \in AllKeys(v) THEN Get(v, e, key) ELSE held
    IN  [APIToken |-> field("api_token", cfg.APIToken),
         APIURL |-> field("api_url", cfg.APIURL),
         DefaultVoice |-> field("default_voice", cfg.DefaultVoice),
         DefaultSavePath |-> field("default_save_path", cfg.DefaultSavePath),
         InteractiveProfiles |->
             IF "interactive_profiles" \in AllKeys(v)
             THEN Get(v, e, "interactive_profiles") @@ cfg.InteractiveProfiles
             ELSE cfg.InteractiveProfiles]

\* (*Config).Save: the library state and the file it leaves.  A configuration
\* with a DefaultModel field is one of the version of Config that config set
\* default-model is written for, whose Save stores that field as well
Save(c, v, e) ==
    LET v0 == Set(Set(v, "api_token", c.APIToken), "api_url", c.APIURL)
        v1 == IF "DefaultModel" \in DOMAIN c THEN Set(v0, "default_model", c.DefaultModel)
              ELSE v0
        v2 == IF c.DefaultVoice # "" THEN Set(v1, "default_voice", c.DefaultVoice) ELSE v1
        v3 == Set(Set(v2, "default_save_path", c.DefaultSavePath),
                  "interactive_profiles", c.InteractiveProfiles)
    IN  [viper |-> v3, disk |-> WriteConfigAs(v3, e)]

ProfileNameDefault == <<"d","e","f","a","u","l","t">>

\* the configuration Load starts from
BuiltinConfig ==
    [APIToken |-> "", APIURL |-> DefaultAPIURL, DefaultVoice |-> "",
     DefaultSavePath |-> ".", InteractiveProfiles |-> EmptyMap]

\* config.Load in a process whose library state is v, with the file d and the
\* environment e: the configuration, the library state and the file
LoadConfig(v, d, e) ==
    LET v1 == SetDefault(v, "api_url", DefaultAPIURL)
    IN  IF ~d.exists
        THEN LET first == [BuiltinConfig EXCEPT
                              !.InteractiveProfiles = (ProfileNameDefault :> FirstRunProfile)]
                 saved == Save(first, v1, e)
             IN  [cfg |-> Unmarshal(first, saved.viper, e), viper |-> saved.viper,
                  disk |-> saved.disk]
        ELSE LET v2 == ReadInConfig(v1, d)
             IN  [cfg |-> Unmarshal(BuiltinConfig, v2, e), viper |-> v2, disk |-> d]

\* configurations a caller saves
SavedProfiles ==
    {EmptyMap, ProfileNameDefault :> FirstRunProfile,
     (ProfileNameDefault :> FullProfile) @@ (<<"D","e","v">> :> FirstRunProfile)}

Configs ==
    {[APIToken |-> t, APIURL |-> u, DefaultVoice |-> dv, DefaultSavePath |-> sp,
      InteractiveProfiles |-> ps] :
        t \in {"", "token-1"}, u \in {DefaultAPIURL, "https://staging"},
        dv \in {"", "voice-1"}, sp \in {".", "out"}, ps \in SavedProfiles}

\* the file before the first call: absent, or written by hand
ConfigFilesOnDisk ==
    {NoConfigFile,
     [exists |-> TRUE, settings |-> ("api_token" :> "token-0")],
     [exists |-> TRUE,
      settings |-> ("api_token" :> "token-0") @@ ("api_url" :> "https://old")
                      @@ ("default_voice" :> "voice-0") @@ ("default_save_path" :> "old")
                      @@ ("interactive_profiles" :> (ProfileNameDefault :> FullProfile))]}

Environs ==
    {EmptyMap, "api_token" :> "env-token", "api_url" :> "https://env"}

SaveInit ==
    /\ LoopIdle /\ SpeechIdle
    /\ viper = NewViper
    /\ disk \in ConfigFilesOnDisk
    /\ environ \in Environs
    /\ login = NoLogin
    /\ call = [fn |-> "none", saves |-> 0]
    /\ ret = NoRet

\* cfg, err := config.Load()
ConfigLoad ==
    /\ LET r == LoadConfig(viper, disk, environ)
       IN  /\ viper' = r.viper
           /\ disk' = r.disk
           /\ ret' = Returned(r.cfg)
    /\ UNCHANGED <<loopVars, speechVars, environ, login, call>>

\* c.Save() for a configuration c
ConfigSave ==
    /\ call.saves < MaxSaves
    /\ \E c \in Configs :
          LET r == Save(c, viper, environ)
          IN  /\ viper' = r.viper
              /\ disk' = r.disk
              /\ call' = [fn |-> "Save", c |-> c, saves |-> call.saves + 1]
    /\ ret' = NoRet
    /\ UNCHANGED <<loopVars, speechVars, environ, login>>

\* viper.Reset(), or the process ends and another one starts
ViperReset ==
    /\ viper # NewViper
    /\ viper' = NewViper
    /\ UNCHANGED <<loopVars, speechVars, disk, environ, login, call, ret>>

SaveNext == ConfigLoad \/ ConfigSave \/ ViperReset

SaveSpec == SaveInit /\ [][SaveNext]_vars

\* C24: with no MIRAKO_ variable in the environment, a Load that follows
\* c.Save() returns a configuration whose APIToken, APIURL, DefaultVoice,
\* DefaultSavePath and interactive profiles equal those of c, whatever was
\* loaded or saved before.
C24_SaveLoadRoundTrip ==
    (call.fn = "Save" /\ ret.done /\ environ = EmptyMap) => ret.value = call.c

(***************************************************************************)
(* config set, auth login, auth logout: one run of the program each, in a  *)
(* process of its own                                                      *)
(***************************************************************************)
MaxRuns == 2

\* util.GetConfig after config.Load: the flags that were given replace the
\* loaded values (Nil: the flag is not on the command line)
ApplyFlags(cfg, flags) ==
    [cfg EXCEPT !.APIToken = IF flags.api_token # Nil THEN flags.api_token ELSE @,
                !.APIURL = IF flags.api_url # Nil THEN flags.api_url ELSE @]

\* root.initConfig, then util.GetConfig of the command, in a new process
StartAndGetConfig(flags, d, e) ==
    LET started == LoadConfig(NewViper, d, e)
        loaded == LoadConfig(started.viper, started.disk, e)
    IN  [cfg |-> ApplyFlags(loaded.cfg, flags), viper |-> loaded.viper,
         disk |-> loaded.disk]

KeyAPIToken == <<"a","p","i","-","t","o","k","e","n">>

KeyAPIURL == <<"a","p","i","-","u","r","l">>

KeyDefaultModel == <<"d","e","f","a","u","l","t","-","m","o","d","e","l">>

KeyDefaultVoice == <<"d","e","f","a","u","l","t","-","v","o","i","c","e">>

\* config set: the file the run leaves, and its error.  The key is compared
\* in lower case.
runSet(c, d, e) ==
    LET got == StartAndGetConfig(c.flags, d, e)
        key == ToLower(c.key)
        cfg == CASE key = KeyAPIToken -> [got.cfg EXCEPT !.APIToken = c.value]
                 [] key = KeyAPIURL -> [got.cfg EXCEPT !.APIURL = c.value]
                 [] key = KeyDefaultModel -> got.cfg @@ [DefaultModel |-> c.value]
                 [] key = KeyDefaultVoice -> [got.cfg EXCEPT !.DefaultVoice = c.value]
                 [] OTHER -> got.cfg
    IN  IF key \notin {KeyAPIToken, KeyAPIURL, KeyDefaultModel, KeyDefaultVoice}
        THEN [disk |-> got.disk, err |-> "unknown configuration key"]
        ELSE [disk |-> Save(cfg, got.viper, e).disk, err |-> ""]

\* auth login from the point where the token is known: the token of --token,
\* or the one typed at the prompt (none: the prompt was interrupted); got is
\* what util.GetConfig returned and d the file as it is now
FinishLogin(c, got, d, e) ==
    LET token == IF c.token # "" THEN c.token ELSE c.typed
    IN  IF token = ""
        THEN [disk |-> d, err |-> "failed to get token"]
        ELSE [disk |-> Save([got.cfg EXCEPT !.APIToken = token], got.viper, e).disk,
              err |-> ""]

\* auth login, no other run of a command in between
runLogin(c, d, e) ==
    LET got == StartAndGetConfig(c.flags, d, e)
    IN  FinishLogin(c, got, got.disk, e)

\* auth logout
runLogout(c, d, e) ==
    LET got == StartAndGetConfig(c.flags, d, e)
    IN  [disk |-> Save([got.cfg EXCEPT !.APIToken = ""], got.viper, e).disk, err |-> ""]

GlobalFlags ==
    {[api_token |-> Nil, api_url |-> Nil], [api_token |-> "cli-token", api_url |-> Nil],
     [api_token |-> Nil, api_url |-> "https://cli"]}

Commands ==
    {c \in {[fn |-> "config set", key |-> k, value |-> v, flags |-> f] :
                k \in {KeyAPIToken, <<"A","P","I","-","U","r","l">>, KeyDefaultModel,
                       KeyDefaultVoice, <<"t","h","e","m","e">>},
                v \in {"", "value-1"}, f \in GlobalFlags} :
        /\ c.value = "" => c.key = KeyDefaultVoice /\ c.flags.api_url = Nil
        /\ c.key \in {KeyDefaultModel, <<"t","h","e","m","e">>}
              => c.flags.api_token = Nil /\ c.flags.api_url = Nil}
    \cup {c \in {[fn |-> "auth login", token |-> t, typed |-> ty, flags |-> f] :
                    t \in {"", "login-token"}, ty \in {"", "typed-token"},
                    f \in GlobalFlags} : c.token # "" => c.typed = ""}
    \cup {[fn |-> "auth logout", flags |-> f] : f \in GlobalFlags}

CmdInit ==
    /\ LoopIdle /\ SpeechIdle
    /\ viper = NewViper
    /\ disk \in ConfigFilesOnDisk
    /\ environ \in Environs
    /\ login = NoLogin
    /\ call = [fn |-> "none", runs |-> 0]
    /\ ret = NoRet

\* a run of a command ends: the file as the run found it is kept with what
\* the run returned
Ran(c, before, r) ==
    /\ disk' = r.disk
    /\ call' = [c EXCEPT !.runs = call.runs + 1]
    /\ ret' = Returned([before |-> before, err |-> r.err])
    /\ UNCHANGED <<loopVars, speechVars, viper, environ>>

ConfigSet ==
    /\ call.runs < MaxRuns
    /\ \E c \in Commands :
          /\ c.fn = "config set"
          /\ Ran(c @@ [runs |-> 0], disk, runSet(c, disk, environ))
    /\ UNCHANGED login

\* auth login --token
AuthLogin ==
    /\ call.runs < MaxRuns
    /\ \E c \in Commands :
          /\ c.fn = "auth login" /\ c.token # ""
          /\ Ran(c @@ [runs |-> 0], disk, runLogin(c, disk, environ))
    /\ UNCHANGED login

\* auth login without --token: the configuration is loaded, and the run
\* waits in survey.AskOne
AuthLoginPrompt ==
    /\ call.runs < MaxRuns
    /\ ~login.pending
    /\ \E c \in Commands :
          /\ c.fn = "auth login" /\ c.token = "" /\ c.typed = ""
          /\ LET got == StartAndGetConfig(c.flags, disk, environ)
             IN  /\ disk' = got.disk
                 /\ login' = [pending |-> TRUE, c |-> c, got |-> got, before |-> disk]
    /\ UNCHANGED <<loopVars, speechVars, viper, environ, call, ret>>

\* the prompt returns with what was typed, and the run saves the
\* configuration it loaded before the prompt
AuthLoginAnswer ==
    /\ call.runs < MaxRuns
    /\ login.pending
    /\ \E c \in Commands :
          /\ c.fn = "auth login" /\ c.token = "" /\ c.flags = login.c.flags
          /\ Ran(c @@ [runs |-> 0], login.before,
                 FinishLogin(c, login.got, disk, environ))
    /\ login' = NoLogin

AuthLogout ==
    /\ call.runs < MaxRuns
    /\ \E c \in Commands :
          /\ c.fn = "auth logout"
          /\ Ran(c @@ [runs |-> 0], disk, runLogout(c, disk, environ))
    /\ UNCHANGED login

CmdNext == ConfigSet \/ AuthLogin \/ AuthLoginPrompt \/ AuthLoginAnswer \/ AuthLogout

CmdSpec == CmdInit /\ [][CmdNext]_vars

\* the key of the file a command is to change
TargetKey(c) ==
    CASE c.fn = "config set" /\ ToLower(c.key) = KeyAPIURL -> "api_url"
      [] c.fn = "config set" /\ ToLower(c.key) = KeyDefaultModel -> "default_model"
      [] c.fn = "config set" /\ ToLower(c.key) = KeyDefaultVoice -> "default_voice"
      [] OTHER -> "api_token"

\* C30: a run of config set, auth login or auth logout that succeeds leaves
\* every key of the file other than the one it targets with the value the
\* key had before the run, whatever --api-token, --api-url and the
\* environment hold for that run.
C30_OnlyTargetedKey ==
    (call.fn \in {"config set", "auth login", "auth logout"} /\ ret.done
         /\ ret.value.err = "")
        => \A key \in DOMAIN ret.value.before.settings \ {TargetKey(call)} :
              /\ key \in DOMAIN disk.settings
              /\ disk.settings[key] = ret.value.before.settings[key]

(***************************************************************************)
(* Outcome of a poll loop                                                  *)
(***************************************************************************)
\* what the caller of the loop observes
Outcome(r) ==
    CASE r.kind = "running" -> "none"
      [] r.kind = "success" -> "success"
      [] r.kind = "cancelled" -> "aborted"
      [] r.kind = "panic" -> "crash"
      [] OTHER -> "failure"

\* C25: a poll loop that has ended has produced one outcome out of success,
\* failure and aborted; once the outcome is determined it does not change, no
\* status fetch is issued and no spinner frame is drawn.
C25_ExactlyOneOutcome ==
    /\ [](LoopExited => Outcome(result) \in {"success", "failure", "aborted"})
    /\ [][(pollInterval > 0 /\ result # Running)
             => UNCHANGED <<result, fetchesIssued, inflight, stdout, spinnerIndex>>]_vars

\* C27: a poll loop whose status fetch returned COMPLETED without the payload
\* field ends with success, having written no file and created no directory;
\* it never ends in a crash.
C27_AbsentPayloadEndsNormally ==
    (LoopExited /\ LastStatusIn({CompletedStatus(kind)}) /\ ~Last(fetchLog).Payload.present)
        => result = Success /\ fs = InitialFs

\* C28: a completed job whose result could not be decoded or downloaded
\* leaves the filesystem as it was: no directory and no file was created.
C28_FailedSaveLeavesFs ==
    (LoopExited /\ result.kind \in {"decode", "download"}) => fs = InitialFs

(***************************************************************************)
(* The poll loop run without an end: after MaxPolls status fetches and     *)
(* MaxFrames frames the loop goes on, and the counters and the recorded    *)
(* output stay at their last values.  The select serves a branch that      *)
(* stays ready (Go chooses among the ready cases at random), the tickers   *)
(* fire and a status fetch returns.                                        *)
(***************************************************************************)
FairInit ==
    /\ Init
    /\ kind \in {"image", "build"}
    /\ pollInterval > 0
    /\ outputPath = <<>>

\* select: case <-spinnerTicker.C, for the frames after the recorded ones
SelectSpinnerMore ==
    /\ pc = "select"
    /\ spinnerTickerC = 1
    /\ spinnerIndex >= MaxFrames
    /\ spinnerTickerC' = 0
    /\ UNCHANGED <<inputs, pc, ctxDone, pollTickerC, spinnerIndex, currentStatus, stdout,
                   result, fetchesIssued, inflight, fetchCtxDone, fetchLog, fs, downloads>>

\* select: case <-pollTicker.C, for the fetches after the counted ones
SelectPollMore ==
    /\ pc = "select"
    /\ pollTickerC = 1
    /\ fetchesIssued >= MaxPolls
    /\ pollTickerC' = 0
    /\ pc' = "fetching"
    /\ inflight' = inflight + 1
    /\ fetchCtxDone' = ctxDone
    /\ UNCHANGED <<inputs, ctxDone, spinnerTickerC, spinnerIndex, currentStatus,
                   stdout, result, fetchesIssued, fetchLog, fs, downloads>>

\* the status fetch returns, for the fetches after the counted ones: the log
\* keeps the last result only
FetchReturnMore ==
    /\ pc = "fetching"
    /\ Len(fetchLog) >= MaxPolls
    /\ \E resp \in FetchResults(kind, fetchCtxDone, ctxDone) :
       \E env \in EnvsFor(kind, noSave, resp) :
          LET r == OnFetchResult(kind, noSave, outputPath, currentStatus, resp, env, fs)
          IN  /\ currentStatus' = r.currentStatus
              /\ stdout' = IF r.clear THEN Append(stdout, ClearLine) ELSE stdout
              /\ result' = r.result
              /\ pc' = IF r.result = Running THEN "select" ELSE "done"
              /\ fs' = r.fs
              /\ downloads' = downloads + r.gets
              /\ fetchLog' = [fetchLog EXCEPT ![Len(fetchLog)] = resp]
    /\ inflight' = inflight - 1
    /\ UNCHANGED <<inputs, ctxDone, pollTickerC, spinnerTickerC, spinnerIndex,
                   fetchesIssued, fetchCtxDone>>

FairNext ==
    \/ NewTickers
    \/ PollTick
    \/ SpinnerTick
    \/ Cancel
    \/ SelectDone
    \/ SelectPoll
    \/ FetchReturn
    \/ SelectSpinner
    \/ SelectSpinnerMore
    \/ SelectPollMore
    \/ FetchReturnMore

Fairness ==
    /\ WF_vars(NewTickers)
    /\ WF_vars(PollTick)
    /\ WF_vars(SelectPoll)
    /\ WF_vars(SelectPollMore)
    /\ WF_vars(FetchReturn)
    /\ WF_vars(FetchReturnMore)

FairSpec == FairInit /\ [][FairNext]_vars /\ Fairness

\* the status fetch returned an error, no data or a terminal status
TerminalOrError(resp) ==
    \/ resp.err.type # "none"
    \/ ~resp.hasData
    \/ resp.Status \in {CompletedStatus(kind)} \cup FailureStatuses(kind)

\* every status fetch that returns, returns an error or a terminal status
FetchesSettle ==
    [][(pc = "fetching" /\ pc' # "fetching") => TerminalOrError(Last(fetchLog'))]_vars

\* C26: if from some point on every status fetch returns an error or a
\* terminal status, the poll loop eventually exits, however often the spinner
\* branch is ready.
C26_EventuallyExits == <>FetchesSettle => <>(pc = "done")

\* C26 witness: the loop exited on a terminal status that followed a
\* non-terminal one, with MaxFrames spinner frames drawn on the way and no
\* cancellation.
C26_Witness ==
    /\ pc = "done"
    /\ Len(fetchLog) = MaxPolls
    /\ ~TerminalOrError(fetchLog[1])
    /\ TerminalOrError(Last(fetchLog))
    /\ spinnerIndex = MaxFrames
    /\ ~ctxDone

(***************************************************************************)
(* speech stt and speech tts: the API call runs on a goroutine of its own  *)
(* and hands its outcome to the main loop over resultChan or errorChan     *)
(***************************************************************************)
\* make(chan ..., 1)
ChanCap == 1

\* what client.SpeechToText / client.TextToSpeech can return: an error, or a
\* response with or without data; the payload is the text or the audio
SpeechReturns(fn, cancelled) ==
    {FetchResult(e, FALSE, "", NoPayload, NoDetail) :
        e \in {TransportError("connection refused"), HandleHTTPError(500, EmptyBody),
               HandleHTTPError(402, JSONBody("no credits"))}
              \cup (IF cancelled THEN {ContextCanceled} ELSE {})}
    \cup {FetchResult(NoError, FALSE, "", NoPayload, NoDetail)}
    \cup {FetchResult(NoError, TRUE, "", p, NoDetail) :
            p \in IF fn = "speech stt" THEN {Payload(<<"h","i">>)}
                  ELSE {NoPayload, Payload(ImageABC), Payload(ImageCorrupt)}}

SpeechInit ==
    /\ kind = "image" /\ noSave = FALSE /\ pollInterval = 2
    /\ outputPath \in OutputPaths
    /\ pc = "select" /\ ctxDone = FALSE /\ pollTickerC = 0 /\ spinnerTickerC = 0
    /\ spinnerIndex = 0 /\ currentStatus = "" /\ stdout = <<>> /\ result = Running
    /\ fetchesIssued = 0 /\ inflight = 0 /\ fetchCtxDone = FALSE /\ fetchLog = <<>>
    /\ fs = InitialFs /\ downloads = 0
    /\ StoreIdle
    /\ call \in {[fn |-> "speech stt"], [fn |-> "speech tts"]}
    /\ ret = NoRet
    /\ gpc = [at |-> "call"]
    /\ resultChan = <<>> /\ errorChan = <<>> /\ delivered = <<>>

\* goroutine: resp, err := client.SpeechToText(ctx, ...) returns
GoCall ==
    /\ gpc.at = "call"
    /\ \E v \in SpeechReturns(call.fn, ctxDone) : gpc' = [at |-> "send", value |-> v]
    /\ UNCHANGED <<loopVars, storeVars, call, ret, resultChan, errorChan, delivered>>

\* the goroutine with the return after the send on errorChan missing: the
\* response of a failed call is sent on resultChan as well
GoSendFallsThrough ==
    /\ gpc.at = "send"
    /\ IF gpc.value.err.type # "none"
       THEN /\ Len(errorChan) < ChanCap /\ Len(resultChan) < ChanCap
            /\ errorChan' = Append(errorChan, gpc.value)
            /\ resultChan' = Append(resultChan, gpc.value)
            /\ delivered' = delivered \o <<gpc.value, gpc.value>>
       ELSE /\ Len(resultChan) < ChanCap
            /\ resultChan' = Append(resultChan, gpc.value)
            /\ errorChan' = errorChan
            /\ delivered' = Append(delivered, gpc.value)
    /\ gpc' = [at |-> "done"]
    /\ UNCHANGED <<loopVars, storeVars, call, ret>>

\* goroutine: errorChan <- err; return, or resultChan <- resp.  A send goes
\* through when the channel's buffer has room.
GoSend ==
    /\ gpc.at = "send"
    /\ IF gpc.value.err.type # "none"
       THEN /\ Len(errorChan) < ChanCap
            /\ errorChan' = Append(errorChan, gpc.value)
            /\ resultChan' = resultChan
       ELSE /\ Len(resultChan) < ChanCap
            /\ resultChan' = Append(resultChan, gpc.value)
            /\ errorChan' = errorChan
    /\ delivered' = Append(delivered, gpc.value)
    /\ gpc' = [at |-> "done"]
    /\ UNCHANGED <<loopVars, storeVars, call, ret>>

\* select: case <-ctx.Done()
SpeechSelectDone ==
    /\ pc = "select"
    /\ ctxDone
    /\ stdout' = Append(stdout, ClearLine)
    /\ result' = Failure("cancelled", <<"operation cancelled: ", "context canceled">>)
    /\ pc' = "done"
    /\ UNCHANGED <<inputs, ctxDone, pollTickerC, spinnerTickerC, spinnerIndex,
                   currentStatus, fetchesIssued, inflight, fetchCtxDone, fetchLog, fs, downloads>>

SpeechFailurePrefix(fn) ==
    IF fn = "speech stt" THEN "failed to convert speech to text: "
    ELSE "failed to convert text to speech: "

\* select: case err := <-errorChan
SpeechSelectError ==
    /\ pc = "select"
    /\ errorChan # <<>>
    /\ LET err == Head(errorChan).err
       IN  result' = IF err.type = "api"
                     THEN Failure("api_call", GetUserFriendlyMessage(err))
                     ELSE Failure("api_call", <<SpeechFailurePrefix(call.fn)>> \o ErrorText(err))
    /\ errorChan' = Tail(errorChan)
    /\ stdout' = Append(stdout, ClearLine)
    /\ pc' = "done"
    /\ UNCHANGED <<kind, noSave, outputPath, pollInterval, call, ret, storeVars, gpc,
                   resultChan, delivered, ctxDone, pollTickerC, spinnerTickerC, spinnerIndex,
                   currentStatus, fetchesIssued, inflight, fetchCtxDone, fetchLog, fs, downloads>>

\* runSTT, case resp := <-resultChan: the text is written to --output or printed
SaveText(text, path, env, f) ==
    IF path = <<>> THEN [result |-> Success, gets |-> 0, fs |-> f]
    ELSE IF ~env.mkdirOk
    THEN [result |-> Failure("io", <<"failed to create directory: ", "permission denied">>),
          gets |-> 0, fs |-> f]
    ELSE IF ~env.writeOk
    THEN [result |-> Failure("io", <<"failed to save text: ", "permission denied">>),
          gets |-> 0, fs |-> MkdirAll(f, Dir(path))]
    ELSE [result |-> Success, gets |-> 0, fs |-> WriteFile(MkdirAll(f, Dir(path)), path, text)]

\* the body of the result branch
OnSpeechResult(fn, resp, path, env, f) ==
    IF ~resp.hasData
    THEN [result |-> Failure("unexpected", <<"unexpected response from server">>),
          gets |-> 0, fs |-> f]
    ELSE IF fn = "speech stt" THEN SaveText(resp.Payload.value, path, env, f)
    ELSE IF ~resp.Payload.present
    THEN [result |-> Failure("no_audio", <<"no audio data received from server">>),
          gets |-> 0, fs |-> f]
    ELSE SaveAudio(resp.Payload.value, path, env, f)

\* select: case resp := <-resultChan
SpeechSelectResult ==
    /\ pc = "select"
    /\ resultChan # <<>>
    /\ \E env \in {e \in Envs : e.copyOk /\ e.dlCode = 200} :
          LET r == OnSpeechResult(call.fn, Head(resultChan), outputPath, env, fs)
          IN  result' = r.result /\ fs' = r.fs
    /\ resultChan' = Tail(resultChan)
    /\ stdout' = Append(stdout, ClearLine)
    /\ pc' = "done"
    /\ UNCHANGED <<kind, noSave, outputPath, pollInterval, call, ret, storeVars, gpc,
                   errorChan, delivered, ctxDone, pollTickerC, spinnerTickerC, spinnerIndex,
                   currentStatus, fetchesIssued, inflight, fetchCtxDone, fetchLog, downloads>>

SpeechLabel(fn) == IF fn = "speech stt" THEN "Processing..." ELSE "Generating audio..."

\* select: case <-spinnerTicker.C
SpeechSelectSpinner ==
    /\ pc = "select"
    /\ spinnerTickerC = 1
    /\ spinnerIndex < MaxFrames
    /\ spinnerTickerC' = 0
    /\ stdout' = Append(stdout, SpinnerLine(spinnerIndex, SpeechLabel(call.fn)))
    /\ spinnerIndex' = spinnerIndex + 1
    /\ UNCHANGED <<inputs, pc, ctxDone, pollTickerC, currentStatus, result,
                   fetchesIssued, inflight, fetchCtxDone, fetchLog, fs, downloads>>

SpeechNext ==
    \/ GoCall
    \/ GoSend
    \/ SpinnerTick
    \/ Cancel
    \/ SpeechSelectDone
    \/ SpeechSelectError
    \/ SpeechSelectResult
    \/ SpeechSelectSpinner

\* the API call returns, and the goroutine runs when it can
SpeechSpec ==
    SpeechInit /\ [][SpeechNext]_vars /\ WF_vars(GoCall) /\ WF_vars(GoSend)

\* the channel the goroutine is about to send on
SendTarget == IF gpc.value.err.type # "none" THEN errorChan ELSE resultChan

\* C29: the goroutine of speech stt / speech tts sends one value and no more,
\* on resultChan or on errorChan; whenever it is about to send, the channel
\* has room, whether or not the main loop still runs; and it terminates.
C29_OneSendNeverBlocks ==
    /\ [](Len(delivered) <= 1)
    /\ [](gpc.at = "done" => Len(delivered) = 1)
    /\ [](gpc.at = "send" => Len(SendTarget) < ChanCap)
    /\ <>(gpc.at = "done")

\* C29 witness: the main loop returned through the cancellation branch while
\* the API call was outstanding; the goroutine sent its value afterwards and
\* ended, the value staying in the channel.
C29_Witness ==
    /\ pc = "done"
    /\ result.kind = "cancelled"
    /\ gpc.at = "done"
    /\ Len(delivered) = 1
    /\ Len(resultChan) + Len(errorChan) = 1

====
